---------------------------- MODULE Spec2Model ----------------------------
(***************************************************************************)
(* Model of python-cmethods: the bias-correction functions                 *)
(* (cmethods/scaling.py, cmethods/distribution.py, cmethods/utils.py), the *)
(* dispatching entry point cmethods.core.adjust and the grid dispatcher    *)
(* CMethods.adjust_3d / CMethods.pool_adjust (cmethods/__init__.py).       *)
(*                                                                         *)
(* Numbers.  A float is modelled exactly as an extended rational <<n, d>>: *)
(* d > 0 and gcd(n, d) = 1 for a finite value, <<1, 0>> for +inf,          *)
(* <<-1, 0>> for -inf and <<0, 0>> for NaN.  Rounding of IEEE doubles is   *)
(* not modelled.  A numpy array is a sequence of such values.              *)
(***************************************************************************)
EXTENDS Integers, Sequences, FiniteSets, TLC

VARIABLES op, args, outcome, returned, errmsg, invoked, pool

vars == <<op, args, outcome, returned, errmsg, invoked, pool>>

-----------------------------------------------------------------------------
(* Extended rational arithmetic (IEEE semantics of +, -, *, /, <, ==).      *)

IAbs(i) == IF i < 0 THEN -i ELSE i

ISgn(i) == IF i < 0 THEN -1 ELSE IF i > 0 THEN 1 ELSE 0

RECURSIVE GCD(_, _)
GCD(a, b) == IF b = 0 THEN a ELSE GCD(b, a % b)

Norm(n, d) ==
    IF d = 0 THEN <<ISgn(n), 0>>
    ELSE LET g == GCD(IAbs(n), IAbs(d))
         IN  <<(ISgn(d) * n) \div g, IAbs(d) \div g>>

Q(i) == <<i, 1>>

NaN == <<0, 0>>

PInf == <<1, 0>>

NInf == <<-1, 0>>

Zero == <<0, 1>>

IsNaN(x) == x = NaN

IsInf(x) == x = PInf \/ x = NInf

IsFinite(x) == x[2] # 0

RNeg(x) == <<-x[1], x[2]>>

RAdd(x, y) ==
    IF IsNaN(x) \/ IsNaN(y) THEN NaN
    ELSE IF IsInf(x) /\ IsInf(y) THEN (IF x = y THEN x ELSE NaN)
    ELSE Norm(x[1] * y[2] + y[1] * x[2], x[2] * y[2])

RSub(x, y) == RAdd(x, RNeg(y))

RMul(x, y) == Norm(x[1] * y[1], x[2] * y[2])

\* numpy division under errstate(divide="ignore", invalid="ignore"):
\* x/0 is +-inf with the sign of x (the zero is +0.0), 0/0 is NaN, nothing
\* raises.
RDiv(x, y) ==
    IF IsNaN(x) \/ IsNaN(y) THEN NaN
    ELSE Norm(x[1] * (IF y[1] < 0 THEN -1 ELSE 1) * y[2], x[2] * IAbs(y[1]))

RLt(x, y) ==
    IF IsNaN(x) \/ IsNaN(y) THEN FALSE
    ELSE IF IsInf(x) \/ IsInf(y) THEN (x # y /\ (x = NInf \/ y = PInf))
    ELSE x[1] * y[2] < y[1] * x[2]

RGt(x, y) == RLt(y, x)

REq(x, y) == ~IsNaN(x) /\ ~IsNaN(y) /\ x = y

RLe(x, y) == RLt(x, y) \/ REq(x, y)

RAbs(x) == <<IAbs(x[1]), x[2]>>

RSgn(x) == ISgn(x[1])

\* ceil of a finite rational, as an integer
Ceil(x) == -((-x[1]) \div x[2])

-----------------------------------------------------------------------------
(* Sequence helpers.                                                        *)

RECURSIVE SumSeq(_)
SumSeq(s) == IF s = <<>> THEN Zero ELSE RAdd(Head(s), SumSeq(Tail(s)))

\* the array with the elements of a, all of them computed
Array(a) == a \o <<>>

\* The element of a singleton.  The({e : x \in {v}}) is e with x bound to
\* the value of v, computed once: a local variable of the code.
The(S) == CHOOSE x \in S : TRUE

RECURSIVE SelectNotNaN(_)
SelectNotNaN(s) ==
    IF s = <<>> THEN <<>>
    ELSE IF IsNaN(Head(s)) THEN SelectNotNaN(Tail(s))
    ELSE <<Head(s)>> \o SelectNotNaN(Tail(s))

HasNaN(s) == \E i \in 1..Len(s) : IsNaN(s[i])

-----------------------------------------------------------------------------
(* numpy / builtins, as far as the package uses them.                       *)

\* np.mean: NaN as soon as one sample is NaN.
np_mean(a) == IF HasNaN(a) \/ a = <<>> THEN NaN ELSE RDiv(SumSeq(a), Q(Len(a)))

\* variant: the statistic is np.mean, which does not skip NaN samples
np_nanmean_not_skipping(a) == np_mean(a)

\* np.nanmean: mean of the non-NaN samples; NaN (with a warning) if none.
np_nanmean(a) ==
    LET f == SelectNotNaN(a)
    IN  IF f = <<>> THEN NaN ELSE RDiv(SumSeq(f), Q(Len(f)))

RECURSIVE FoldMax(_, _)
FoldMax(best, s) ==
    IF s = <<>> THEN best
    ELSE FoldMax(IF RGt(Head(s), best) THEN Head(s) ELSE best, Tail(s))

RECURSIVE FoldMin(_, _)
FoldMin(best, s) ==
    IF s = <<>> THEN best
    ELSE FoldMin(IF RLt(Head(s), best) THEN Head(s) ELSE best, Tail(s))

\* np.nanmax / np.nanmin of a non-empty array: NaN if every sample is NaN.
np_nanmax(a) ==
    LET f == SelectNotNaN(a)
    IN  IF f = <<>> THEN NaN ELSE FoldMax(Head(f), Tail(f))

np_nanmin(a) ==
    LET f == SelectNotNaN(a)
    IN  IF f = <<>> THEN NaN ELSE FoldMin(Head(f), Tail(f))

\* Python's builtin max(a, b) / min(a, b): the first argument is kept unless
\* the second compares strictly greater / smaller; every comparison with NaN
\* is False, so a NaN in first position wins and one in second position loses.
py_max(a, b) == IF RGt(b, a) THEN b ELSE a

py_min(a, b) == IF RLt(b, a) THEN b ELSE a

\* np.std(a) squared (population variance); NaN if a sample is NaN.
np_var(a) ==
    LET m == np_mean(a)
    IN  np_mean(Array([i \in 1..Len(a) |-> RMul(RSub(a[i], m), RSub(a[i], m))]))

\* Signed square x*|x| of a value.  np.std is a square root and in general
\* irrational; the scaling factor built from it only goes through /, *,
\* abs, comparisons and the isinf/isnan tests, which all commute with the
\* strictly increasing map x |-> x*|x|, so that part of variance_scaling is
\* evaluated on signed squares.
Ssq(x) == RMul(x, RAbs(x))

IsSquare(n) == \E k \in 0..n : k * k = n

ISqrt(n) == CHOOSE k \in 0..n : k * k = n

\* x has a rational signed square root
SsqRational(x) == ~IsFinite(x) \/ (IsSquare(IAbs(x[1])) /\ IsSquare(x[2]))

\* inverse of Ssq where it is rational
SsqRoot(x) ==
    IF ~IsFinite(x) THEN x
    ELSE <<ISgn(x[1]) * ISqrt(IAbs(x[1])), ISqrt(x[2])>>

\* np.arange(start, stop, step) on floats: ceil((stop - start) / step)
\* samples start + i * step; empty if that count is not positive.
np_arange(start, stop, step) ==
    LET n == Ceil(RDiv(RSub(stop, start), step))
    IN  Array([i \in 1..(IF n > 0 THEN n ELSE 0) |-> RAdd(start, RMul(Q(i - 1), step))])

BinsIncrease(bins) == \A i \in 1..(Len(bins) - 1) : ~RGt(bins[i], bins[i + 1])

\* variant: the last bin is half-open like the others
np_histogram_half_open(x, bins) ==
    Array([i \in 1..(Len(bins) - 1) |->
        Q(Cardinality({k \in 1..Len(x) :
            RLe(bins[i], x[k]) /\ RLt(x[k], bins[i + 1])}))])

\* np.histogram(x, bins) with an array of edges: bin i is
\* [bins[i], bins[i+1]) and the last bin also contains its right edge;
\* NaN samples fall in no bin.  The edges must increase (ValueError if not,
\* see np_histogram_raises).
np_histogram(x, bins) ==
    Array([i \in 1..(Len(bins) - 1) |->
        Q(Cardinality({k \in 1..Len(x) :
            /\ RLe(bins[i], x[k])
            /\ \/ RLt(x[k], bins[i + 1])
               \/ (i = Len(bins) - 1 /\ REq(x[k], bins[i + 1]))}))])

np_histogram_raises(bins) == ~BinsIncrease(bins)

RECURSIVE np_cumsum(_)
np_cumsum(s) ==
    IF s = <<>> THEN <<>>
    ELSE LET p == np_cumsum(SubSeq(s, 1, Len(s) - 1))
         IN  Append(p, IF p = <<>> THEN s[Len(s)] ELSE RAdd(p[Len(p)], s[Len(s)]))

\* One sample of np.interp(x, xp, fp, left, right): NaN stays NaN, a probe
\* below xp[0] gives left, above xp[-1] gives right; otherwise with j the
\* last index such that xp[j] <= x, fp[j] if x == xp[j] or j is the last
\* index, else the linear interpolation between the points j and j + 1.
interp1(x, xp, fp, left, right) ==
    IF IsNaN(x) THEN NaN
    ELSE IF RGt(x, xp[Len(xp)]) THEN right
    ELSE IF RLt(x, xp[1]) THEN left
    ELSE LET j == CHOOSE k \in 1..Len(xp) :
                     /\ RLe(xp[k], x)
                     /\ \A m \in (k + 1)..Len(xp) : RLt(x, xp[m])
         IN  IF j = Len(xp) \/ REq(xp[j], x) THEN fp[j]
             ELSE RAdd(fp[j],
                       RMul(RDiv(RSub(fp[j + 1], fp[j]), RSub(xp[j + 1], xp[j])),
                            RSub(x, xp[j])))

\* np.interp on an array of probes; left/right default to fp[0] / fp[-1].
np_interp(x, xp, fp, left, right) ==
    Array([i \in 1..Len(x) |-> interp1(x[i], xp, fp, left, right)])

\* variant: outside xp the values run on one unit beyond the ends of fp
np_interp_default_running_on(x, xp, fp) ==
    np_interp(x, xp, fp, RSub(fp[1], Q(1)), RAdd(fp[Len(fp)], Q(1)))

np_interp_default(x, xp, fp) == np_interp(x, xp, fp, fp[1], fp[Len(fp)])

-----------------------------------------------------------------------------
(* cmethods/static.py                                                       *)

SCALING_METHODS == {"linear_scaling", "variance_scaling", "delta_method"}

DISTRIBUTION_METHODS ==
    {"quantile_mapping", "detrended_quantile_mapping", "quantile_delta_mapping"}

CUSTOM_METHODS == SCALING_METHODS \cup DISTRIBUTION_METHODS

METHODS == CUSTOM_METHODS

ADDITIVE == {"+", "add"}

MULTIPLICATIVE == {"*", "mult"}

MAX_SCALING_FACTOR == 10

-----------------------------------------------------------------------------
(* Calls return a record: how the call ended (outcome "returned" or the     *)
(* name of the exception raised), the value returned and, for an error, the *)
(* parts of its message.                                                    *)

NoMsg == [of |-> "", kind |-> "", use |-> {}]

Ret(v) == [outcome |-> "returned", value |-> v, msg |-> NoMsg]

Raise(e, m) == [outcome |-> e, value |-> <<>>, msg |-> m]

Raised(r) == r.outcome # "returned"

\* kwargs.get(key, default) on a keyword dictionary
Get(kwargs, key, default) == IF key \in DOMAIN kwargs THEN kwargs[key] ELSE default

\* merge two keyword dictionaries, the second wins
Upd(kwargs, more) ==
    [k \in DOMAIN kwargs \cup DOMAIN more |->
        IF k \in DOMAIN more THEN more[k] ELSE kwargs[k]]

NoKw == [k \in {} |-> 0]

-----------------------------------------------------------------------------
(* cmethods/utils.py                                                        *)

\* raise UnknownMethodError(method, available_methods)
UnknownMethodError(method, available_methods) ==
    Raise("UnknownMethodError", [of |-> method, kind |-> "", use |-> available_methods])

nan_or_equal(value1, value2) == IsNaN(value1) \/ IsNaN(value2) \/ REq(value1, value2)

\* Operands of ensure_devidable: a Python float, a numpy scalar (np.float64,
\* as np.nanmean and np.std return it) or a numpy array; array operands of
\* one call have the same length.  The result carries in raised the name of
\* the exception the call ends with ("" if it returns).
PyFloat(x) == [ndarray |-> FALSE, py |-> TRUE, data |-> x]

Scal(x) == [ndarray |-> FALSE, py |-> FALSE, data |-> x]

Arr(a) == [ndarray |-> TRUE, py |-> FALSE, data |-> a]

At(operand, i) == IF operand.ndarray THEN operand.data[i] ELSE operand.data

Returns(operand) ==
    [ndarray |-> operand.ndarray, py |-> operand.py, data |-> operand.data, raised |-> ""]

Fails(exception) == [ndarray |-> FALSE, py |-> FALSE, data |-> NaN, raised |-> exception]

ensure_devidable(numerator, denominator, max_scaling_factor) ==
    IF numerator.py /\ denominator.py /\ denominator.data = Zero
    THEN \* numerator / denominator on Python floats
         Fails("ZeroDivisionError")
    ELSE IF numerator.ndarray
    THEN LET result == Array([i \in 1..Len(numerator.data) |->
                            RDiv(numerator.data[i], At(denominator, i))])
             noinf  == Array([i \in 1..Len(result) |->
                            IF IsInf(result[i])
                            THEN RMul(numerator.data[i], max_scaling_factor)
                            ELSE result[i]])
         IN  Returns(Arr(Array([i \in 1..Len(noinf) |->
                             IF IsNaN(noinf[i]) THEN Zero ELSE noinf[i]])))
    ELSE IF denominator.ndarray
    THEN \* the quotient is an array, tested by elif np.isinf(result)
         LET result == Array([i \in 1..Len(denominator.data) |->
                            RDiv(numerator.data, denominator.data[i])])
         IN  IF Len(result) # 1 THEN Fails("ValueError")
             ELSE IF IsInf(result[1])
             THEN Returns(Scal(RMul(numerator.data, max_scaling_factor)))
             ELSE IF IsNaN(result[1]) THEN Returns(PyFloat(Zero))
             ELSE Returns(Arr(result))
    ELSE LET result == RDiv(numerator.data, denominator.data)
         IN  IF IsInf(result)
             THEN Returns(Scal(RMul(numerator.data, max_scaling_factor)))
             ELSE IF IsNaN(result) THEN Returns(PyFloat(Zero))
             ELSE Returns([ndarray |-> FALSE, py |-> numerator.py /\ denominator.py,
                           data |-> result])

get_pdf(x, xbins) == np_histogram(x, xbins)

get_cdf(x, xbins) == <<Zero>> \o np_cumsum(np_histogram(x, xbins))

\* variant: the probes are looked up along the edges, not along the CDF
get_inverse_of_cdf_forward(base_cdf, insert_cdf, xbins) ==
    np_interp_default(insert_cdf, xbins, base_cdf)

get_inverse_of_cdf(base_cdf, insert_cdf, xbins) ==
    np_interp_default(insert_cdf, base_cdf, xbins)

\* variant: the factor is passed through without the clamp
get_adjusted_scaling_factor_unclamped(factor, max_scaling_factor) == factor

get_adjusted_scaling_factor(factor, max_scaling_factor) ==
    IF RGt(factor, Zero) /\ RGt(factor, RAbs(max_scaling_factor))
    THEN RAbs(max_scaling_factor)
    ELSE IF RLt(factor, Zero) /\ RLt(factor, RNeg(RAbs(max_scaling_factor)))
    THEN RNeg(RAbs(max_scaling_factor))
    ELSE factor

-----------------------------------------------------------------------------
(* cmethods/scaling.py.  obs, simh and simp are arrays; kwargs is the       *)
(* keyword dictionary (max_scaling_factor, adjust_called, ...).             *)

AddTo(a, c) == Array([i \in 1..Len(a) |-> RAdd(a[i], c)])

Scale(a, c) == Array([i \in 1..Len(a) |-> RMul(a[i], c)])

\* variant: the message names neither the kind nor the alternatives
NotImplementedError_unnamed(of, kind, use) ==
    Raise("NotImplementedError", [of |-> of, kind |-> "", use |-> {}])

NotImplementedError(of, kind, use) ==
    Raise("NotImplementedError", [of |-> of, kind |-> kind, use |-> use])

\* adj_scaling_factor = get_adjusted_scaling_factor(
\*     ensure_dividable(numerator, denominator, max_scaling_factor),
\*     max_scaling_factor) on two statistics (numpy scalars)
scaling_factor(numerator, denominator, max_scaling_factor) ==
    get_adjusted_scaling_factor(
        ensure_devidable(Scal(numerator), Scal(denominator), max_scaling_factor).data,
        max_scaling_factor)

\* variant: the correction is applied to obs, as delta_method does
linear_scaling_on_obs(obs, simh, simp, kind, kwargs) ==
    IF kind \in ADDITIVE
    THEN Ret(AddTo(obs, RSub(np_nanmean(obs), np_nanmean(simh))))
    ELSE IF kind \in MULTIPLICATIVE
    THEN LET max_scaling_factor == Get(kwargs, "max_scaling_factor", Q(MAX_SCALING_FACTOR))
             adj_scaling_factor ==
                 scaling_factor(np_nanmean(obs), np_nanmean(simh), max_scaling_factor)
         IN  Ret(Scale(obs, adj_scaling_factor))
    ELSE NotImplementedError("linear_scaling", kind, {"+", "*"})

linear_scaling(obs, simh, simp, kind, kwargs) ==
    IF kind \in ADDITIVE
    THEN Ret(AddTo(simp, RSub(np_nanmean(obs), np_nanmean(simh))))
    ELSE IF kind \in MULTIPLICATIVE
    THEN LET max_scaling_factor == Get(kwargs, "max_scaling_factor", Q(MAX_SCALING_FACTOR))
             adj_scaling_factor ==
                 scaling_factor(np_nanmean(obs), np_nanmean(simh), max_scaling_factor)
         IN  Ret(Scale(simp, adj_scaling_factor))
    ELSE NotImplementedError("linear_scaling", kind, {"+", "*"})

\* An element a + b * sqrt(|f|) * sgn(f) of the output of variance_scaling,
\* f being the signed square of the scaling factor: a rational when the
\* factor is rational, else the triple <<a, b, f>>.
Surd(a, b, f) ==
    IF IsNaN(a) \/ IsNaN(b) \/ IsNaN(f) THEN NaN
    ELSE IF SsqRational(f) THEN RAdd(a, RMul(b, SsqRoot(f)))
    ELSE IF b = Zero THEN a
    ELSE <<a, b, f>>

\* variant: the deviations are not rescaled
variance_scaling_unscaled(obs, simh, simp, kind, kwargs) ==
    IF kind \in ADDITIVE
    THEN linear_scaling(obs, simh, simp, "+", kwargs)
    ELSE NotImplementedError("variance_scaling", kind, {"+"})

variance_scaling(obs, simh, simp, kind, kwargs) ==
    IF kind \in ADDITIVE
    THEN The({The({The({Ret(Array([i \in 1..Len(VS_1_simp) |->
                                 Surd(LS_simp_mean, VS_1_simp[i], adj_scaling_factor)])) :
                        \* signed square of the adjusted scaling factor
                        adj_scaling_factor \in
                            {get_adjusted_scaling_factor(
                                 ensure_devidable(Scal(np_var(obs)), Scal(np_var(VS_1_simh)),
                                                  Ssq(max_scaling_factor)).data,
                                 Ssq(max_scaling_factor))},
                        LS_simp_mean \in {np_nanmean(LS_simp)}}) :
                   VS_1_simh \in {AddTo(LS_simh, RNeg(np_nanmean(LS_simh)))},
                   VS_1_simp \in {AddTo(LS_simp, RNeg(np_nanmean(LS_simp)))}}) :
              LS_simh \in {linear_scaling(obs, simh, simh, "+", kwargs).value},
              LS_simp \in {linear_scaling(obs, simh, simp, "+", kwargs).value},
              max_scaling_factor \in
                  {Get(kwargs, "max_scaling_factor", Q(MAX_SCALING_FACTOR))}})
    ELSE NotImplementedError("variance_scaling", kind, {"+"})

\* variant: the change is added to simp, sample by sample
delta_method_on_simp(obs, simh, simp, kind, kwargs) ==
    IF kind \in ADDITIVE
    THEN Ret(AddTo(simp, RSub(np_nanmean(simp), np_nanmean(simh))))
    ELSE IF kind \in MULTIPLICATIVE
    THEN LET max_scaling_factor == Get(kwargs, "max_scaling_factor", Q(MAX_SCALING_FACTOR))
             adj_scaling_factor ==
                 scaling_factor(np_nanmean(simp), np_nanmean(simh), max_scaling_factor)
         IN  Ret(Scale(simp, adj_scaling_factor))
    ELSE NotImplementedError("delta_method", kind, {"+", "*"})

delta_method(obs, simh, simp, kind, kwargs) ==
    IF kind \in ADDITIVE
    THEN Ret(AddTo(obs, RSub(np_nanmean(simp), np_nanmean(simh))))
    ELSE IF kind \in MULTIPLICATIVE
    THEN LET max_scaling_factor == Get(kwargs, "max_scaling_factor", Q(MAX_SCALING_FACTOR))
             adj_scaling_factor ==
                 scaling_factor(np_nanmean(simp), np_nanmean(simh), max_scaling_factor)
         IN  Ret(Scale(obs, adj_scaling_factor))
    ELSE NotImplementedError("delta_method", kind, {"+", "*"})

-----------------------------------------------------------------------------
(* cmethods/distribution.py.  n_quantiles is [type, val]: type "int" for a  *)
(* Python int, anything else for a value of another type.                   *)

TypeError(what) == Raise("TypeError", [of |-> what, kind |-> "", use |-> {}])

\* errors raised inside numpy (np.arange, np.histogram, np.interp)
NumpyError(what) == Raise("ValueError", [of |-> what, kind |-> "", use |-> {}])

\* xbins = np.arange(global_min, global_max + wide, wide) and the CDF
\* construction on it can fail inside numpy: no length can be computed for
\* a step that is zero or not finite, np.histogram rejects edges that do
\* not increase, np.interp rejects an empty array of sample points.
BinsFail(global_min, global_max, wide) ==
    \/ ~IsFinite(wide) \/ wide = Zero
    \/ LET xbins == np_arange(global_min, RAdd(global_max, wide), wide)
       IN  xbins = <<>> \/ np_histogram_raises(xbins)

quantile_mapping(obs, simh, simp, n_quantiles, kind, kwargs) ==
    IF n_quantiles.type # "int" THEN TypeError("n_quantiles")
    ELSE
    The({IF nan_or_equal(global_max, global_min) THEN Ret(simp)
         ELSE
         The({IF BinsFail(global_min, global_max, wide) THEN NumpyError("xbins")
              ELSE
              The({The({IF kind \in ADDITIVE
                        THEN The({Ret(get_inverse_of_cdf(cdf_obs, epsilon, xbins)) :
                                  epsilon \in {np_interp_default(simp, xbins, cdf_simh)}})
                        ELSE IF kind \in MULTIPLICATIVE
                        THEN The({Ret(get_inverse_of_cdf(cdf_obs, epsilon, xbins)) :
                                  epsilon \in
                                      {np_interp(simp, xbins, cdf_simh,
                                                 Get(kwargs, "val_min", Zero),
                                                 Get(kwargs, "val_max",
                                                     cdf_simh[Len(cdf_simh)]))}})
                        ELSE NotImplementedError("quantile_mapping", kind, {"+", "*"}) :
                        cdf_obs \in {get_cdf(obs, xbins)},
                        cdf_simh \in {get_cdf(simh, xbins)}}) :
                   xbins \in {np_arange(global_min, RAdd(global_max, wide), wide)}}) :
              wide \in {RDiv(RAbs(RSub(global_max, global_min)), Q(n_quantiles.val))}}) :
         global_max \in {py_max(np_nanmax(obs), np_nanmax(simh))},
         global_min \in {py_min(np_nanmin(obs), np_nanmin(simh))}})

\* simp.groupby("time.month").groups: for each key, in increasing order of
\* the keys, the time indices carrying it (in time order).
GroupKeys(keys) == {keys[i] : i \in 1..Len(keys)}

RECURSIVE SortedKeys(_)
SortedKeys(S) ==
    IF S = {} THEN <<>>
    ELSE LET m == CHOOSE x \in S : \A y \in S : x <= y
         IN  <<m>> \o SortedKeys(S \ {m})

RECURSIVE IndicesOf(_, _, _)
IndicesOf(keys, key, i) ==
    IF i > Len(keys) THEN <<>>
    ELSE (IF keys[i] = key THEN <<i>> ELSE <<>>) \o IndicesOf(keys, key, i + 1)

Take(a, indices) == Array([k \in 1..Len(indices) |-> a[indices[k]]])

\* simp is a labelled series [vals, keys] (keys[i]: the calendar month of
\* time index i); obs and simh are arrays.  simp_is_xr tells whether simp is
\* an xarray DataArray.
detrended_quantile_mapping(obs, simh, simp, simp_is_xr, n_quantiles, kind, kwargs) ==
    IF kind \notin MULTIPLICATIVE /\ kind \notin ADDITIVE
    THEN NotImplementedError("detrended_quantile_mapping", kind, {"+", "*"})
    ELSE IF n_quantiles.type # "int" THEN TypeError("n_quantiles")
    ELSE IF ~simp_is_xr THEN TypeError("simp")
    ELSE
    The({IF nan_or_equal(global_max, global_min) THEN Ret(simp.vals)
         ELSE
         The({IF BinsFail(global_min, global_max, wide) THEN NumpyError("xbins")
              ELSE
              The({The({LET max_scaling_factor ==
                                Get(kwargs, "max_scaling_factor", Q(MAX_SCALING_FACTOR))
                            \* the corrected values X of the group with the given
                            \* time indices
                            X(indices) ==
                                The({The({IF kind \in ADDITIVE
                                          THEN The({AddTo(AddTo(get_inverse_of_cdf(
                                                                    cdf_obs, epsilon, xbins),
                                                                m_simp_mean),
                                                          RNeg(m_simh_mean)) :
                                                    epsilon \in
                                                        {np_interp_default(
                                                             AddTo(AddTo(m_simp,
                                                                         RNeg(m_simp_mean)),
                                                                   m_simh_mean),
                                                             xbins, cdf_simh)}})
                                          ELSE The({Scale(np_interp_default(
                                                              epsilon, cdf_obs, xbins),
                                                          ensure_devidable(
                                                              Scal(m_simp_mean),
                                                              Scal(m_simh_mean),
                                                              max_scaling_factor).data) :
                                                    epsilon \in
                                                        {np_interp(
                                                             ensure_devidable(
                                                                 Arr(Scale(m_simp,
                                                                           m_simh_mean)),
                                                                 Scal(m_simp_mean),
                                                                 max_scaling_factor).data,
                                                             xbins, cdf_simh,
                                                             Get(kwargs, "val_min", Zero),
                                                             Get(kwargs, "val_max",
                                                                 cdf_simh[Len(cdf_simh)]))}}) :
                                          m_simh_mean \in {np_nanmean(m_simh)},
                                          m_simp_mean \in {np_nanmean(m_simp)}}) :
                                     m_simh \in {Take(simh, indices)},
                                     m_simp \in {Take(simp.vals, indices)}})
                        IN
                        \* simh[index] with an index of simp beyond the end of simh
                        IF Len(simp.vals) > Len(simh) THEN Raise("IndexError", NoMsg)
                        ELSE Ret(Array([i \in 1..Len(simp.vals) |->
                                     The({X(group_of)[CHOOSE k \in 1..Len(group_of) :
                                                          group_of[k] = i] :
                                          group_of \in
                                              {IndicesOf(simp.keys, simp.keys[i], 1)}})])) :
                        cdf_obs \in {get_cdf(obs, xbins)},
                        cdf_simh \in {get_cdf(simh, xbins)}}) :
                   xbins \in {np_arange(global_min, RAdd(global_max, wide), wide)}}) :
              wide \in {RDiv(RAbs(RSub(global_max, global_min)), Q(n_quantiles.val))}}) :
         global_max \in {py_max(np_nanmax(obs), np_nanmax(simh))},
         global_min \in {py_min(np_nanmin(obs), np_nanmin(simh))}})

\* variant: no delta is added, the result is the one of quantile_mapping
quantile_delta_mapping_without_delta(obs, simh, simp, n_quantiles, kind, kwargs) ==
    quantile_mapping(obs, simh, simp, n_quantiles, kind, kwargs)

quantile_delta_mapping(obs, simh, simp, n_quantiles, kind, kwargs) ==
    IF n_quantiles.type # "int" THEN TypeError("n_quantiles")
    ELSE IF kind \in ADDITIVE
    THEN
    The({IF nan_or_equal(global_max, global_min) THEN Ret(simp)
         ELSE
         The({IF BinsFail(global_min, global_max, wide) THEN NumpyError("xbins")
              ELSE
              The({The({The({The({Ret(Array([i \in 1..Len(simp) |->
                                          RAdd(QDM1[i], RSub(simp[i], inv_simh[i]))])) :
                                  QDM1 \in {get_inverse_of_cdf(cdf_obs, epsilon, xbins)},
                                  inv_simh \in
                                      {get_inverse_of_cdf(cdf_simh, epsilon, xbins)}}) :
                             epsilon \in {np_interp_default(simp, xbins, cdf_simp)}}) :
                        cdf_obs \in {get_cdf(obs, xbins)},
                        cdf_simh \in {get_cdf(simh, xbins)},
                        cdf_simp \in {get_cdf(simp, xbins)}}) :
                   xbins \in {np_arange(global_min, RAdd(global_max, wide), wide)}}) :
              wide \in {RDiv(RAbs(RSub(global_max, global_min)), Q(n_quantiles.val))}}) :
         global_max \in
             {Get(kwargs, "global_max", py_max(np_nanmax(obs), np_nanmax(simh)))},
         global_min \in
             {Get(kwargs, "global_min", py_min(np_nanmin(obs), np_nanmin(simh)))}})
    ELSE IF kind \in MULTIPLICATIVE
    THEN
    The({IF nan_or_equal(global_max, global_min) THEN Ret(simp)
         ELSE
         The({IF BinsFail(global_min, global_max, wide) THEN NumpyError("xbins")
              ELSE
              The({The({The({The({Ret(Array([i \in 1..Len(simp) |->
                                          RMul(QDM1[i], delta[i])])) :
                                  QDM1 \in {get_inverse_of_cdf(cdf_obs, epsilon, xbins)},
                                  delta \in
                                      {ensure_devidable(
                                           Arr(simp),
                                           Arr(get_inverse_of_cdf(cdf_simh, epsilon, xbins)),
                                           Get(kwargs, "max_scaling_scaling",
                                               Q(MAX_SCALING_FACTOR))).data}}) :
                             epsilon \in {np_interp_default(simp, xbins, cdf_simp)}}) :
                        cdf_obs \in {get_cdf(obs, xbins)},
                        cdf_simh \in {get_cdf(simh, xbins)},
                        cdf_simp \in {get_cdf(simp, xbins)}}) :
                   xbins \in {np_arange(global_min, RAdd(global_max, wide), wide)}}) :
              wide \in {RDiv(global_max, Q(n_quantiles.val))}}) :
         global_max \in
             {Get(kwargs, "global_max", py_max(np_nanmax(obs), np_nanmax(simh)))},
         global_min \in {Get(kwargs, "global_min", Zero)}})
    ELSE NotImplementedError("quantile_delta_mapping", kind, {"+", "*"})

-----------------------------------------------------------------------------
(* cmethods/core.py.  A 1-dimensional xarray DataArray is a labelled series *)
(* [vals, keys]: vals[i] is the sample at time index i and keys[i] its      *)
(* label under the grouping expression used for that data set (for          *)
(* "time.month" the calendar month).  A call of this layer returns, besides *)
(* outcome/value/msg, the list calls of the corrector invocations it made.  *)

WithCalls(r, calls) ==
    [outcome |-> r.outcome, value |-> r.value, msg |-> r.msg, calls |-> calls]

METHODS_FUNC ==
    {"linear_scaling", "variance_scaling", "delta_method",
     "quantile_mapping", "quantile_delta_mapping"}

Absent == [type |-> "absent", val |-> 0]

\* variant: the function called returns simp as it is
CallFunc_uncorrected(method, obs, simh, simp, kwargs) == Ret(simp)

\* __METHODS_FUNC__[method](obs, simh, simp, **kwargs): kind and n_quantiles
\* are taken from the keywords; a distribution-based function called
\* without n_quantiles fails with TypeError (missing argument).
CallFunc(method, obs, simh, simp, kwargs) ==
    LET kind == Get(kwargs, "kind", "+")
        n_quantiles == Get(kwargs, "n_quantiles", Absent)
    IN  CASE method = "linear_scaling" -> linear_scaling(obs, simh, simp, kind, kwargs)
          [] method = "variance_scaling" -> variance_scaling(obs, simh, simp, kind, kwargs)
          [] method = "delta_method" -> delta_method(obs, simh, simp, kind, kwargs)
          [] method = "quantile_mapping" ->
                 quantile_mapping(obs, simh, simp, n_quantiles, kind, kwargs)
          [] method = "quantile_delta_mapping" ->
                 quantile_delta_mapping(obs, simh, simp, n_quantiles, kind, kwargs)

\* The record of one corrector invocation.
Invocation(method, obs, simh, simp) ==
    [method |-> method, obs |-> obs, simh |-> simh, simp |-> simp]

\* check_xr_types (called ensure_xr_dataarray in core.py): xr says, for obs,
\* simh and simp, whether the argument is an xarray Dataset / DataArray.
check_xr_types(xr) ==
    IF ~xr.obs THEN TypeError("obs")
    ELSE IF ~xr.simh THEN TypeError("simh")
    ELSE IF ~xr.simp THEN TypeError("simp")
    ELSE Ret(<<>>)

\* input_core_dims, if given, is [type, keys]: type "dict" with the set of
\* its keys (its values are dimension names), or another type.
InputCoreDimsError(kwargs) ==
    IF "input_core_dims" \notin DOMAIN kwargs THEN Ret(<<>>)
    ELSE LET icd == kwargs["input_core_dims"]
         IN  IF icd.type = "dict" /\ icd.keys = {} THEN Ret(<<>>)
             ELSE IF icd.type # "dict" THEN TypeError("input_core_dims")
             ELSE IF Cardinality(icd.keys) # 3
             THEN Raise("ValueError", [of |-> "input_core_dims", kind |-> "", use |-> {}])
             ELSE IF ~({"obs", "simh", "simp"} \subseteq icd.keys)
             THEN Raise("KeyError", [of |-> "input_core_dims", kind |-> "", use |-> {}])
             ELSE Ret(<<>>)

Without(kwargs, keys) == [k \in DOMAIN kwargs \ keys |-> kwargs[k]]

\* xr.apply_ufunc(..., vectorize=True, output_core_dims=[["__t_simp__"]]) on
\* 1-dimensional data calls the function once; numpy's vectorize rejects a
\* returned array whose length is not the size of the core dimension of
\* simp (ValueError).  The time axes of obs, simh and simp are independent
\* of each other: where their sizes differ the caller names the dimensions
\* apart through input_core_dims, as the docstring of adjust requires, and
\* simp is always renamed to "__t_simp__".
apply_ufunc(method, obs, simh, simp, xr, kwargs) ==
    IF Raised(check_xr_types(xr)) THEN WithCalls(check_xr_types(xr), <<>>)
    ELSE IF method \notin METHODS_FUNC
    THEN WithCalls(UnknownMethodError(method, METHODS_FUNC), <<>>)
    ELSE IF Raised(InputCoreDimsError(kwargs))
    THEN WithCalls(InputCoreDimsError(kwargs), <<>>)
    ELSE The({IF Raised(result) THEN WithCalls(result, calls)
              ELSE IF Len(result.value) # Len(simp.vals)
              THEN WithCalls(Raise("ValueError",
                                   [of |-> "__t_simp__", kind |-> "", use |-> {}]), calls)
              ELSE WithCalls(result, calls) :
              result \in {CallFunc(method, obs.vals, simh.vals, simp.vals,
                                   Without(kwargs, {"input_core_dims"}))},
              calls \in {<<Invocation(method, obs.vals, simh.vals, simp.vals)>>}})

\* ds.groupby(group): one sub-series per key, in increasing order of keys.
GroupIndices(ds) ==
    LET ks == SortedKeys(GroupKeys(ds.keys))
    IN  Array([g \in 1..Len(ks) |-> IndicesOf(ds.keys, ks[g], 1)])

SubSeries(ds, indices) ==
    [vals |-> Take(ds.vals, indices), keys |-> Take(ds.keys, indices)]

IMin(a, b) == IF a < b THEN a ELSE b

\* The loop of adjust over zip(obs.groupby(..), simh.groupby(..),
\* simp.groupby(..)): the g-th groups of the three data sets are corrected
\* together, for g up to the smallest number of groups; the results are
\* merged on the time coordinate of simp.  acc holds the merged values by
\* time index of simp, calls the invocations so far.
RECURSIVE GroupLoop(_, _, _, _, _, _, _, _, _)
GroupLoop(method, obs, simh, simp, xr, kwargs, g, acc, calls) ==
    The({IF g > IMin(Len(og), IMin(Len(hg), Len(pg)))
         THEN WithCalls(Ret(acc), calls)
         ELSE The({The({IF Raised(monthly_result)
                        THEN WithCalls(monthly_result, calls \o monthly_result.calls)
                        ELSE GroupLoop(
                                 method, obs, simh, simp, xr, kwargs, g + 1,
                                 [i \in DOMAIN acc \cup {pg[g][k] : k \in 1..Len(pg[g])} |->
                                     IF i \in DOMAIN acc THEN acc[i]
                                     ELSE monthly_result.value[
                                              CHOOSE k \in 1..Len(pg[g]) : pg[g][k] = i]],
                                 calls \o monthly_result.calls) :
                        monthly_result \in
                            {apply_ufunc(method, obs_gds, simh_gds, simp_gds, xr, kwargs)}}) :
                   obs_gds \in {SubSeries(obs, og[g])},
                   simh_gds \in {SubSeries(simh, hg[g])},
                   simp_gds \in {SubSeries(simp, pg[g])}}) :
         og \in {GroupIndices(obs)}, hg \in {GroupIndices(simh)},
         pg \in {GroupIndices(simp)}})

\* group, if given, is [type, keys]: type "None", "str", "dict" (with the
\* set of its keys) or another type.
NoneGroup == [type |-> "None", keys |-> {}]

\* variant: detrended_quantile_mapping is dispatched like the other methods
adjust_dispatching_dqm(method, obs, simh, simp, xr, kwargs0) ==
    The({LET group == Get(kwargs, "group", NoneGroup)
             ValueError(what) ==
                 WithCalls(Raise("ValueError", [of |-> what, kind |-> "", use |-> {}]), <<>>)
         IN
        IF Raised(check_xr_types(xr)) THEN WithCalls(check_xr_types(xr), <<>>)
        ELSE IF group.type = "None"
        THEN apply_ufunc(method, obs, simh, simp, xr, kwargs)
        ELSE IF method \notin SCALING_METHODS THEN ValueError("group")
        ELSE IF group.type = "dict" /\ ~(group.keys \subseteq {"obs", "simh", "simp"})
        THEN ValueError("group")
        ELSE IF group.type = "dict" /\ ~({"obs", "simh", "simp"} \subseteq group.keys)
        THEN WithCalls(Raise("KeyError", [of |-> "group", kind |-> "", use |-> {}]), <<>>)
        ELSE IF group.type \notin {"str", "dict"} THEN ValueError("group")
        ELSE GroupLoop(method, obs, simh, simp, xr, Without(kwargs, {"group"}),
                       1, <<>>, <<>>) :
         kwargs \in {Upd(kwargs0, [adjust_called |-> TRUE])}})

\* variant: a group is accepted for every method
adjust_grouping_every_method(method, obs, simh, simp, xr, kwargs0) ==
    The({LET group == Get(kwargs, "group", NoneGroup)
             ValueError(what) ==
                 WithCalls(Raise("ValueError", [of |-> what, kind |-> "", use |-> {}]), <<>>)
         IN
        IF Raised(check_xr_types(xr)) THEN WithCalls(check_xr_types(xr), <<>>)
        ELSE IF method = "detrended_quantile_mapping"
        THEN ValueError("detrended_quantile_mapping")
        ELSE IF group.type = "None"
        THEN apply_ufunc(method, obs, simh, simp, xr, kwargs)
        ELSE IF group.type = "dict" /\ ~(group.keys \subseteq {"obs", "simh", "simp"})
        THEN ValueError("group")
        ELSE IF group.type = "dict" /\ ~({"obs", "simh", "simp"} \subseteq group.keys)
        THEN WithCalls(Raise("KeyError", [of |-> "group", kind |-> "", use |-> {}]), <<>>)
        ELSE IF group.type \notin {"str", "dict"} THEN ValueError("group")
        ELSE GroupLoop(method, obs, simh, simp, xr, Without(kwargs, {"group"}),
                       1, <<>>, <<>>) :
         kwargs \in {Upd(kwargs0, [adjust_called |-> TRUE])}})

adjust(method, obs, simh, simp, xr, kwargs0) ==
    The({LET group == Get(kwargs, "group", NoneGroup)
             ValueError(what) ==
                 WithCalls(Raise("ValueError", [of |-> what, kind |-> "", use |-> {}]), <<>>)
         IN
        IF Raised(check_xr_types(xr)) THEN WithCalls(check_xr_types(xr), <<>>)
        ELSE IF method = "detrended_quantile_mapping"
        THEN ValueError("detrended_quantile_mapping")
        ELSE IF group.type = "None"
        THEN apply_ufunc(method, obs, simh, simp, xr, kwargs)
        ELSE IF method \notin SCALING_METHODS THEN ValueError("group")
        ELSE IF group.type = "dict" /\ ~(group.keys \subseteq {"obs", "simh", "simp"})
        THEN ValueError("group")
        ELSE IF group.type = "dict" /\ ~({"obs", "simh", "simp"} \subseteq group.keys)
        THEN WithCalls(Raise("KeyError", [of |-> "group", kind |-> "", use |-> {}]), <<>>)
        ELSE IF group.type \notin {"str", "dict"} THEN ValueError("group")
        ELSE GroupLoop(method, obs, simh, simp, xr, Without(kwargs, {"group"}),
                       1, <<>>, <<>>) :
         kwargs \in {Upd(kwargs0, [adjust_called |-> TRUE])}})

-----------------------------------------------------------------------------
(* cmethods/__init__.py: class CMethods.  Its correctors take labelled     *)
(* series (1-dimensional DataArrays) and a group; a 3-dimensional DataArray *)
(* is a grid [cells, keys]: cells[lat][lon] is the array of the samples of  *)
(* that cell over time and keys labels the shared time axis.                *)

CMethods_MAX_SCALING_FACTOR == 10

CMethods_get_function(method) ==
    IF method \in {"linear_scaling", "variance_scaling", "delta_method",
                   "quantile_mapping", "detrended_quantile_mapping",
                   "empirical_quantile_mapping", "quantile_delta_mapping"}
    THEN Ret(method)
    ELSE UnknownMethodError(method, METHODS)

CMethods_ensure_devidable(numerator, denominator) ==
    ensure_devidable(numerator, denominator, Q(CMethods_MAX_SCALING_FACTOR))

\* The bodies of the correctors for group = None.
CMethods_linear_scaling_ungrouped(obs, simh, simp, kind, kwargs) ==
    IF kind \in ADDITIVE
    THEN Ret(AddTo(simp, RSub(np_nanmean(obs), np_nanmean(simh))))
    ELSE IF kind \in MULTIPLICATIVE
    THEN LET adj_scaling_factor ==
                 get_adjusted_scaling_factor(
                     CMethods_ensure_devidable(Scal(np_nanmean(obs)),
                                               Scal(np_nanmean(simh))).data,
                     Get(kwargs, "max_scaling_factor", Q(CMethods_MAX_SCALING_FACTOR)))
         IN  Ret(Scale(simp, adj_scaling_factor))
    ELSE NotImplementedError("linear_scaling", kind, {"+", "*"})

CMethods_variance_scaling_ungrouped(obs, simh, simp, kind, kwargs) ==
    IF kind \in ADDITIVE
    THEN The({The({The({Ret(Array([i \in 1..Len(VS_1_simp) |->
                                 Surd(LS_simp_mean, VS_1_simp[i], adj_scaling_factor)])) :
                        \* signed square of the adjusted scaling factor
                        adj_scaling_factor \in
                            {get_adjusted_scaling_factor(
                                 ensure_devidable(Scal(np_var(obs)), Scal(np_var(VS_1_simh)),
                                                  Ssq(Q(CMethods_MAX_SCALING_FACTOR))).data,
                                 Ssq(Get(kwargs, "max_scaling_factor",
                                         Q(CMethods_MAX_SCALING_FACTOR))))},
                        LS_simp_mean \in {np_nanmean(LS_simp)}}) :
                   VS_1_simh \in {AddTo(LS_simh, RNeg(np_nanmean(LS_simh)))},
                   VS_1_simp \in {AddTo(LS_simp, RNeg(np_nanmean(LS_simp)))}}) :
              LS_simh \in
                  {CMethods_linear_scaling_ungrouped(obs, simh, simh, "+", NoKw).value},
              LS_simp \in
                  {CMethods_linear_scaling_ungrouped(obs, simh, simp, "+", NoKw).value}})
    ELSE NotImplementedError("variance_scaling", kind, {"+"})

CMethods_delta_method_ungrouped(obs, simh, simp, kind, kwargs) ==
    IF kind \in ADDITIVE
    THEN Ret(AddTo(obs, RSub(np_nanmean(simp), np_nanmean(simh))))
    ELSE IF kind \in MULTIPLICATIVE
    THEN LET adj_scaling_factor ==
                 get_adjusted_scaling_factor(
                     CMethods_ensure_devidable(Scal(np_nanmean(simp)),
                                               Scal(np_nanmean(simh))).data,
                     Get(kwargs, "max_scaling_factor", Q(CMethods_MAX_SCALING_FACTOR)))
         IN  Ret(Scale(obs, adj_scaling_factor))
    ELSE NotImplementedError("delta_method", kind, {"+", "*"})

\* The class's distribution-based correctors have the bodies of
\* cmethods/distribution.py, with ensure_devidable bound to the class
\* constant MAX_SCALING_FACTOR.
CMethods_quantile_mapping(obs, simh, simp, n_quantiles, kind, kwargs) ==
    quantile_mapping(obs, simh, simp, n_quantiles, kind, kwargs)

CMethods_detrended_quantile_mapping(obs, simh, simp, n_quantiles, kind, kwargs) ==
    detrended_quantile_mapping(obs, simh, simp, TRUE, n_quantiles, kind,
                               Without(kwargs, {"max_scaling_factor"}))

CMethods_quantile_delta_mapping(obs, simh, simp, n_quantiles, kind, kwargs) ==
    quantile_delta_mapping(obs, simh, simp, n_quantiles, kind,
                           Without(kwargs, {"max_scaling_scaling"}))

CMethods_scaling_ungrouped(method, obs, simh, simp, kind, kwargs) ==
    CASE method = "linear_scaling" ->
             CMethods_linear_scaling_ungrouped(obs, simh, simp, kind, kwargs)
      [] method = "variance_scaling" ->
             CMethods_variance_scaling_ungrouped(obs, simh, simp, kind, kwargs)
      [] method = "delta_method" ->
             CMethods_delta_method_ungrouped(obs, simh, simp, kind, kwargs)

\* grouped_correction: the groups are those of simh; for each of them the
\* samples of obs, simh and simp at the time indices of that group of simh
\* are corrected and written back at these indices into a copy of simp.
\* done holds the copy, g the next group.
RECURSIVE CMethods_grouped_loop(_, _, _, _, _, _, _, _, _)
CMethods_grouped_loop(method, obs, simh, simp, kind, kwargs, g, done, calls) ==
    The({IF g > Len(groups) THEN WithCalls(Ret(done), calls)
         ELSE LET idx == groups[g]
              IN  IF \E k \in 1..Len(idx) : idx[k] > Len(obs.vals) \/ idx[k] > Len(simp.vals)
                  THEN WithCalls(Raise("IndexError", NoMsg), calls)
                  ELSE The({The({IF Raised(computed_result)
                                 THEN WithCalls(computed_result, now)
                                 ELSE CMethods_grouped_loop(
                                          method, obs, simh, simp, kind, kwargs, g + 1,
                                          Array([i \in 1..Len(done) |->
                                              IF \E k \in 1..Len(idx) : idx[k] = i
                                              THEN computed_result.value[
                                                       CHOOSE k \in 1..Len(idx) : idx[k] = i]
                                              ELSE done[i]]),
                                          now) :
                                 computed_result \in
                                     {CMethods_scaling_ungrouped(method, m_obs, m_simh,
                                                                 m_simp, kind, kwargs)},
                                 now \in {Append(calls, Invocation(method, m_obs, m_simh,
                                                                   m_simp))}}) :
                            m_obs \in {Take(obs.vals, idx)},
                            m_simh \in {Take(simh.vals, idx)},
                            m_simp \in {Take(simp.vals, idx)}}) :
         groups \in {GroupIndices(simh)}})

CMethods_grouped_correction(method, obs, simh, simp, group, kind, kwargs) ==
    CMethods_grouped_loop(method, obs, simh, simp, kind, kwargs, 1, simp.vals, <<>>)

\* func(obs=.., simh=.., simp=.., group=group, kind=kind,
\* n_quantiles=n_quantiles, **kwargs) for func = get_function(method): the
\* scaling-based methods take group (None or a grouping expression) and
\* leave n_quantiles in their keywords, the distribution-based ones take
\* n_quantiles and leave group in their keywords, where nothing reads it.
CMethods_func(method, obs, simh, simp, group, kind, n_quantiles, kwargs) ==
    LET one(result) ==
            The({WithCalls(r, <<Invocation(method, obs.vals, simh.vals, simp.vals)>>) :
                 r \in {result}})
    IN  IF method \in SCALING_METHODS
        THEN IF group.type # "None"
             THEN CMethods_grouped_correction(method, obs, simh, simp, group, kind, kwargs)
             ELSE one(CMethods_scaling_ungrouped(method, obs.vals, simh.vals, simp.vals,
                                                 kind, kwargs))
        ELSE IF method = "quantile_mapping"
        THEN one(CMethods_quantile_mapping(obs.vals, simh.vals, simp.vals,
                                           n_quantiles, kind, kwargs))
        ELSE IF method = "detrended_quantile_mapping"
        THEN one(CMethods_detrended_quantile_mapping(obs.vals, simh.vals, simp,
                                                     n_quantiles, kind, kwargs))
        ELSE one(CMethods_quantile_delta_mapping(obs.vals, simh.vals, simp.vals,
                                                 n_quantiles, kind, kwargs))

\* The loop over the longitudes of one latitude: row data are
\* [cells, keys] with cells[lon] the array of that cell.  Assigning an
\* array whose length is not the time length of simp to result[lon] fails
\* with ValueError.  done holds the cells written so far.
RECURSIVE CMethods_lon_loop(_, _, _, _, _, _, _, _, _, _, _)
CMethods_lon_loop(method, obs, simh, simp, group, kind, n_quantiles, kwargs, lon, done, calls) ==
    IF lon > Len(simp.cells) THEN WithCalls(Ret(done), calls)
    ELSE The({The({LET now == calls \o r.calls
                   IN  IF Raised(r) THEN WithCalls(r, now)
                       ELSE IF Len(r.value) # Len(simp.keys)
                       THEN WithCalls(Raise("ValueError",
                                            [of |-> "shape", kind |-> "", use |-> {}]),
                                      now)
                       ELSE CMethods_lon_loop(method, obs, simh, simp, group, kind,
                                              n_quantiles, kwargs, lon + 1,
                                              Append(done, r.value), now) :
                   r \in {CMethods_func(method, cell_obs, cell_simh, cell_simp,
                                        group, kind, n_quantiles, kwargs)}}) :
              cell_obs \in {[vals |-> obs.cells[lon], keys |-> obs.keys]},
              cell_simh \in {[vals |-> simh.cells[lon], keys |-> simh.keys]},
              cell_simp \in {[vals |-> simp.cells[lon], keys |-> simp.keys]}})

\* variant: the worker does not read n_quantiles of params and corrects
\* with a fixed number of quantiles
CMethods_pool_adjust_fixed_quantiles(params) ==
    IF params.method \in CUSTOM_METHODS
    THEN CMethods_lon_loop(params.method, params.obs, params.simh, params.simp,
                           params.group, params.kind, [type |-> "int", val |-> 1],
                           params.kwargs, 1, <<>>, <<>>)
    ELSE WithCalls(UnknownMethodError(params.method, METHODS), <<>>)

\* pool_adjust(params): params is the record [method, obs, simh, simp,
\* group, kind, n_quantiles, kwargs] with the row data of one latitude.
CMethods_pool_adjust(params) ==
    IF params.method \in CUSTOM_METHODS
    THEN CMethods_lon_loop(params.method, params.obs, params.simh, params.simp,
                           params.group, params.kind, params.n_quantiles,
                           params.kwargs, 1, <<>>, <<>>)
    ELSE WithCalls(UnknownMethodError(params.method, METHODS), <<>>)

Row(grid, lat) == [cells |-> grid.cells[lat], keys |-> grid.keys]

\* The rows of adjust_3d for n_jobs = 1: latitude after latitude, stopping
\* at the first failure.
RECURSIVE CMethods_lat_loop(_, _, _, _, _, _, _, _, _, _, _)
CMethods_lat_loop(method, obs, simh, simp, group, kind, n_quantiles, kwargs, lat, done, calls) ==
    IF lat > Len(simp.cells) THEN WithCalls(Ret(done), calls)
    ELSE The({IF Raised(r) THEN WithCalls(r, calls \o r.calls)
              ELSE CMethods_lat_loop(method, obs, simh, simp, group, kind, n_quantiles,
                                     kwargs, lat + 1, Append(done, r.value),
                                     calls \o r.calls) :
              r \in {CMethods_lon_loop(method, Row(obs, lat), Row(simh, lat),
                                       Row(simp, lat), group, kind, n_quantiles,
                                       kwargs, 1, <<>>, <<>>)}})

RECURSIVE Concat(_)
Concat(seqs) == IF seqs = <<>> THEN <<>> ELSE Head(seqs) \o Concat(Tail(seqs))

\* The rows of adjust_3d for n_jobs > 1: pool.map runs pool_adjust on every
\* row; if rows fail, the exception of one of them reaches the caller (the
\* one whose failure the pool registers first).  The set of the possible
\* results.
CMethods_pool_map(method, obs, simh, simp, group, kind, n_quantiles, kwargs) ==
    The({LET calls == Concat(Array([lat \in 1..Len(rows) |-> rows[lat].calls]))
             failed == {lat \in 1..Len(rows) : Raised(rows[lat])}
         IN  IF failed = {}
             THEN {WithCalls(Ret(Array([lat \in 1..Len(rows) |-> rows[lat].value])),
                             calls)}
             ELSE {WithCalls(rows[lat], calls) : lat \in failed} :
         rows \in {Array([lat \in 1..Len(simp.cells) |->
                       CMethods_pool_adjust(
                           [method |-> method, obs |-> Row(obs, lat),
                            simh |-> Row(simh, lat), simp |-> Row(simp, lat),
                            group |-> group, kind |-> kind,
                            n_quantiles |-> n_quantiles, kwargs |-> kwargs])])}})

\* adjust_3d: obs, simh and simp are grids; xr says which of them are
\* DataArrays; n_jobs is an int >= 1.  The set of the possible results.
CMethods_adjust_3d(method, obs, simh, simp, xr, n_quantiles, kind, group, n_jobs, kwargs) ==
    IF Raised(check_xr_types(xr)) THEN {WithCalls(check_xr_types(xr), <<>>)}
    ELSE IF n_quantiles.type # "int" THEN {WithCalls(TypeError("n_quantiles"), <<>>)}
    ELSE IF method \notin CUSTOM_METHODS
    THEN {WithCalls(UnknownMethodError(method, METHODS), <<>>)}
    ELSE IF n_jobs = 1
    THEN {CMethods_lat_loop(method, obs, simh, simp, group, kind, n_quantiles,
                            kwargs, 1, <<>>, <<>>)}
    ELSE CMethods_pool_map(method, obs, simh, simp, group, kind, n_quantiles, kwargs)

-----------------------------------------------------------------------------
(* The calls.  The library keeps no state between calls, so a behaviour is  *)
(* one call made from the idle state; the state after it holds the          *)
(* operation, its arguments, how it ended (outcome "returned" or the name   *)
(* of the exception), the value returned, the message of the exception and  *)
(* the correctors invoked.                                                  *)

MaxLen == 2

MaxNQ == 2

NLat == 2

NLon == 1

Call(name, a, r, calls) ==
    /\ op' = name
    /\ args' = a
    /\ outcome' = r.outcome
    /\ returned' = r.value
    /\ errmsg' = r.msg
    /\ invoked' = calls
    /\ UNCHANGED pool

\* no call has been made yet
Idle == op = "none"

\* The worker pool of adjust_3d: its state ("none" before it is created,
\* then "open", "closed", "joined"), the rows still to be run, the rows
\* finished with their results in the order of completion, whether map has
\* ended, and the exception map keeps (the first one registered).
NoPool == [state |-> "none", todo |-> {}, done |-> <<>>, mapped |-> FALSE,
           failure |-> <<>>]

Init ==
    /\ op = "none"
    /\ args = NoKw
    /\ outcome = "none"
    /\ returned = <<>>
    /\ errmsg = NoMsg
    /\ invoked = <<>>
    /\ pool = NoPool

\* ---- the data of the dispatching calls ----
\* The samples of a data set are given by the time index, its group keys
\* (calendar months) follow one of three patterns: 1 1 1.., 1 2 1.., 2 1 2..
ObsAt(i) == Q(2 + i)

SimhAt(i) == Q((2 * i) % 5)

SimpAt(i) == Q((4 * i) % 7)

Patterns == {0, 1, 2}

KeysOf(p, n) == Array([i \in 1..n |-> IF p = 0 THEN 1 ELSE 1 + ((i + p) % 2)])

\* the sample of the data set ds at time index i
SampleAt(ds, i) ==
    CASE ds = "obs" -> ObsAt(i)
      [] ds = "simh" -> SimhAt(i)
      [] ds = "simp" -> SimpAt(i)

Series(ds, n, p) ==
    [vals |-> Array([i \in 1..n |-> SampleAt(ds, i)]), keys |-> KeysOf(p, n)]

Shapes == (1..MaxLen) \X Patterns

Grid(ds, n, p) ==
    [cells |-> Array([lat \in 1..NLat |-> Array([lon \in 1..NLon |->
                   Array([i \in 1..n |-> RAdd(SampleAt(ds, i), Q(2 * lat + lon))])])]),
     keys |-> KeysOf(p, n)]

Methods == METHODS \cup {"distribution_mapping"}

DispatchKinds == {"+", "*", "/"}

IntNQ(n) == [type |-> "int", val |-> n]

NotInt == [type |-> "str", val |-> 0]

NQuantiles == {IntNQ(n) : n \in 1..MaxNQ} \cup {NotInt}

StrGroup == [type |-> "str", keys |-> {}]

DictGroup(keys) == [type |-> "dict", keys |-> keys]

\* the other group values: a dict naming the three data sets, a dict with
\* a missing key, a dict with an unknown key, a value of another type
OtherGroups ==
    {DictGroup({"obs", "simh", "simp"}), DictGroup({"obs", "simh"}),
     DictGroup({"obs", "simh", "simp", "time"}), [type |-> "int", keys |-> {}]}

\* the values of input_core_dims: a dict naming the three data sets, an
\* empty dict, a dict with a missing key, a dict of three keys one of
\* which is unknown, a value of another type
CoreDims ==
    {DictGroup({"obs", "simh", "simp"}), DictGroup({}), DictGroup({"obs", "simh"}),
     DictGroup({"obs", "simh", "time"}), [type |-> "str", keys |-> {}]}

AllXr == [obs |-> TRUE, simh |-> TRUE, simp |-> TRUE]

IllTyped ==
    {[obs |-> FALSE, simh |-> TRUE, simp |-> TRUE],
     [obs |-> TRUE, simh |-> FALSE, simp |-> TRUE],
     [obs |-> TRUE, simh |-> TRUE, simp |-> FALSE]}

\* the keywords of a call of adjust
Keywords(kind, n_quantiles, group) ==
    Upd(Upd([kind |-> kind],
            IF n_quantiles = Absent THEN NoKw ELSE [n_quantiles |-> n_quantiles]),
        IF group = NoneGroup THEN NoKw ELSE [group |-> group])

\* ---- cmethods.adjust(method, obs, simh, simp, **kwargs) ----
DoAdjust(a) ==
    \E r \in {adjust(a.method, a.obs, a.simh, a.simp, a.xr, a.kwargs)} :
        Call("adjust", a, r, r.calls)

\* the arguments of one call of adjust
AdjustArgs(method, obs, simh, simp, xr, kwargs) ==
    [method |-> method, obs |-> obs, simh |-> simh, simp |-> simp,
     xr |-> xr, kwargs |-> kwargs]

\* Without a group the keys play no role; the data vary with the group
\* "time.month".
AdjustCalls ==
    {AdjustArgs(method, Series("obs", no, 0), Series("simh", nh, 0),
                Series("simp", np, 0), AllXr, Keywords(kind, n_quantiles, NoneGroup)) :
         method \in Methods, kind \in DispatchKinds,
         n_quantiles \in NQuantiles \cup {Absent},
         no \in 1..MaxLen, nh \in 1..MaxLen, np \in 1..MaxLen}
    \cup
    {AdjustArgs(method, Series("obs", no, pc), Series("simh", nh, pc),
                Series("simp", sp[1], sp[2]), AllXr,
                Keywords(kind, n_quantiles, StrGroup)) :
         method \in Methods, kind \in DispatchKinds,
         n_quantiles \in NQuantiles \cup {Absent},
         no \in 1..MaxLen, nh \in 1..MaxLen, pc \in Patterns, sp \in Shapes}
    \cup
    {AdjustArgs(method, Series("obs", MaxLen, 1), Series("simh", MaxLen, 1),
                Series("simp", MaxLen, 1), AllXr, Keywords(kind, n_quantiles, group)) :
         method \in Methods, kind \in DispatchKinds,
         n_quantiles \in NQuantiles \cup {Absent}, group \in OtherGroups}
    \cup
    {AdjustArgs(method, Series("obs", MaxLen, 0), Series("simh", MaxLen, 0),
                Series("simp", MaxLen, 0), xr, Keywords("+", IntNQ(MaxNQ), NoneGroup)) :
         method \in Methods, xr \in IllTyped}
    \cup
    {AdjustArgs(method, Series("obs", MaxLen, 0), Series("simh", MaxLen, 0),
                Series("simp", MaxLen, 0), AllXr,
                Keywords("+", IntNQ(MaxNQ), DictGroup({}))) :
         method \in Methods}
    \cup
    {AdjustArgs(method, Series("obs", MaxLen, 0), Series("simh", MaxLen, 0),
                Series("simp", MaxLen, 0), AllXr,
                Upd(Keywords("+", IntNQ(MaxNQ), NoneGroup), [input_core_dims |-> icd])) :
         method \in Methods, icd \in CoreDims}

Adjust == Idle /\ \E a \in AdjustCalls : DoAdjust(a)

\* ---- CMethods.adjust_3d(method, obs, simh, simp, n_quantiles, kind, group, n_jobs) ----
DoAdjust3d(a) ==
    \E r \in CMethods_adjust_3d(a.method, a.obs, a.simh, a.simp, a.xr, a.n_quantiles,
                                a.kind, a.group, a.n_jobs, a.kwargs) :
        Call("adjust_3d", a, r, r.calls)

\* the arguments of one call of adjust_3d
Adjust3dArgs(method, obs, simh, simp, xr, n_quantiles, kind, group, n_jobs, kwargs) ==
    [method |-> method, obs |-> obs, simh |-> simh, simp |-> simp,
     xr |-> xr, n_quantiles |-> n_quantiles, kind |-> kind,
     group |-> group, n_jobs |-> n_jobs, kwargs |-> kwargs]

\* The extra parameters (**kwargs) are none or a max_scaling_factor.
Adjust3dCalls ==
    {Adjust3dArgs(method, Grid("obs", MaxLen, pc), Grid("simh", MaxLen, pc),
                  Grid("simp", sp[1], sp[2]), AllXr, n_quantiles, kind, group, n_jobs,
                  NoKw) :
         method \in Methods, kind \in DispatchKinds, n_quantiles \in NQuantiles,
         group \in {NoneGroup, StrGroup}, n_jobs \in {1, 2},
         pc \in Patterns, sp \in Shapes}
    \cup
    {Adjust3dArgs(method, Grid("obs", MaxLen, pc), Grid("simh", MaxLen, pc),
                  Grid("simp", MaxLen, pc), AllXr, IntNQ(MaxNQ), kind, group, n_jobs,
                  [max_scaling_factor |-> Q(1)]) :
         method \in Methods, kind \in DispatchKinds,
         group \in {NoneGroup, StrGroup}, n_jobs \in {1, 2}, pc \in Patterns}
    \cup
    {Adjust3dArgs(method, Grid("obs", MaxLen, 0), Grid("simh", MaxLen, 0),
                  Grid("simp", MaxLen, 0), xr, IntNQ(MaxNQ), "+", NoneGroup, n_jobs,
                  NoKw) :
         method \in Methods, xr \in IllTyped, n_jobs \in {1, 2}}

Adjust3d == Idle /\ \E a \in Adjust3dCalls : DoAdjust3d(a)

\* ---- CMethods.pool_adjust(params) ----
PoolAdjust ==
    /\ Idle
    /\ \E method \in Methods, kind \in DispatchKinds, n_quantiles \in NQuantiles,
          group \in {NoneGroup, StrGroup}, pc \in Patterns, sp \in Shapes,
          lat \in 1..NLat :
          \E params \in {[method |-> method,
                           obs |-> Row(Grid("obs", MaxLen, pc), lat),
                           simh |-> Row(Grid("simh", MaxLen, pc), lat),
                           simp |-> Row(Grid("simp", sp[1], sp[2]), lat),
                           group |-> group, kind |-> kind, n_quantiles |-> n_quantiles,
                           kwargs |-> NoKw]} :
              \E r \in {CMethods_pool_adjust(params)} :
                  Call("pool_adjust", params, r, r.calls)

Next == Adjust \/ Adjust3d \/ PoolAdjust

Spec == Init /\ [][Next]_vars

-----------------------------------------------------------------------------
(* adjust_3d with n_jobs > 1, step by step: the pool is created, its        *)
(* workers run pool_adjust on the rows and finish in any order, map ends    *)
(* when every row is done and keeps the first exception registered, the     *)
(* finally block closes and joins the pool, then the call ends.             *)

\* a grid like Grid(ds, n, 0) whose row bad holds the negated samples
MixedGrid(ds, n, bad) ==
    [cells |-> Array([lat \in 1..NLat |-> Array([lon \in 1..NLon |->
                   Array([i \in 1..n |->
                       IF lat = bad
                       THEN RNeg(RAdd(SampleAt(ds, i), Q(2 * lat + lon)))
                       ELSE RAdd(SampleAt(ds, i), Q(2 * lat + lon))])])]),
     keys |-> KeysOf(0, n)]

\* the calls of adjust_3d that reach the pool
PoolCalls ==
    {a \in Adjust3dCalls :
        /\ a.n_jobs > 1 /\ a.xr = AllXr
        /\ a.n_quantiles.type = "int" /\ a.method \in CUSTOM_METHODS}
    \cup
    {Adjust3dArgs(method, MixedGrid("obs", MaxLen, bad), MixedGrid("simh", MaxLen, bad),
                  MixedGrid("simp", MaxLen, bad), AllXr, IntNQ(MaxNQ), kind, NoneGroup,
                  2, NoKw) :
         method \in {"quantile_mapping", "quantile_delta_mapping"},
         kind \in {"+", "*"}, bad \in 1..NLat}

\* pool = multiprocessing.Pool(processes=n_jobs) and the list params
PoolStart ==
    /\ Idle
    /\ \E a \in PoolCalls :
          /\ op' = "adjust_3d"
          /\ args' = a
          /\ outcome' = "running"
          /\ pool' = [state |-> "open", todo |-> 1..Len(a.simp.cells), done |-> <<>>,
                      mapped |-> FALSE, failure |-> <<>>]
    /\ UNCHANGED <<returned, errmsg, invoked>>

\* a worker finishes pool_adjust on one row
PoolWork ==
    /\ pool.state = "open" /\ ~pool.mapped
    /\ \E lat \in pool.todo :
          \E r \in {CMethods_pool_adjust(
                        [method |-> args.method, obs |-> Row(args.obs, lat),
                         simh |-> Row(args.simh, lat), simp |-> Row(args.simp, lat),
                         group |-> args.group, kind |-> args.kind,
                         n_quantiles |-> args.n_quantiles, kwargs |-> args.kwargs])} :
             pool' = [pool EXCEPT
                         !.todo = @ \ {lat},
                         !.done = Append(@, [lat |-> lat, result |-> r]),
                         !.failure = IF @ = <<>> /\ Raised(r) THEN <<r>> ELSE @]
    /\ UNCHANGED <<op, args, outcome, returned, errmsg, invoked>>

\* pool.map ends, by returning the rows or by raising the exception kept,
\* once every row is done
PoolMapEnds ==
    /\ pool.state = "open" /\ ~pool.mapped /\ pool.todo = {}
    /\ pool' = [pool EXCEPT !.mapped = TRUE]
    /\ UNCHANGED <<op, args, outcome, returned, errmsg, invoked>>

\* finally: pool.close()
PoolClose ==
    /\ pool.state = "open" /\ pool.mapped
    /\ pool' = [pool EXCEPT !.state = "closed"]
    /\ UNCHANGED <<op, args, outcome, returned, errmsg, invoked>>

\* finally: pool.join()
PoolJoin ==
    /\ pool.state = "closed"
    /\ pool' = [pool EXCEPT !.state = "joined"]
    /\ UNCHANGED <<op, args, outcome, returned, errmsg, invoked>>

\* variant: the exception of map reaches the caller without the finally
\* block
PoolEnd_without_finally ==
    /\ outcome = "running" /\ pool.mapped
    /\ LET row(lat) == pool.done[CHOOSE k \in 1..Len(pool.done) :
                                     pool.done[k].lat = lat].result
           calls == Concat(Array([lat \in 1..Len(pool.done) |-> row(lat).calls]))
       IN  IF pool.failure # <<>>
           THEN Call(op, args, pool.failure[1], calls)
           ELSE Call(op, args,
                     Ret(Array([lat \in 1..Len(pool.done) |-> row(lat).value])), calls)

\* variant: the rows are written in the order in which the workers finish
PoolEnd_in_order_of_arrival ==
    /\ outcome = "running" /\ pool.state = "joined"
    /\ LET calls == Concat(Array([k \in 1..Len(pool.done) |-> pool.done[k].result.calls]))
       IN  IF pool.failure # <<>>
           THEN Call(op, args, pool.failure[1], calls)
           ELSE Call(op, args,
                     Ret(Array([k \in 1..Len(pool.done) |-> pool.done[k].result.value])),
                     calls)

\* the call ends after the finally block: with the exception of map, or
\* with the rows written into the copy of simp
PoolEnd ==
    /\ outcome = "running" /\ pool.state = "joined"
    /\ LET row(lat) == pool.done[CHOOSE k \in 1..Len(pool.done) :
                                     pool.done[k].lat = lat].result
           calls == Concat(Array([lat \in 1..Len(pool.done) |-> row(lat).calls]))
       IN  IF pool.failure # <<>>
           THEN Call(op, args, pool.failure[1], calls)
           ELSE Call(op, args,
                     Ret(Array([lat \in 1..Len(pool.done) |-> row(lat).value])), calls)

NextPool == PoolStart \/ PoolWork \/ PoolMapEnds \/ PoolClose \/ PoolJoin \/ PoolEnd

SpecPool == Init /\ [][NextPool]_vars

-----------------------------------------------------------------------------
(* Direct calls of the helpers of cmethods/utils.py                         *)

Numerators == {Q(-2), <<-1, 2>>, Zero, <<1, 2>>, Q(3)}

Denominators == {Q(-2), Zero, <<1, 2>>, Q(4)}

MaxFactors == {Q(-10), Q(2), Q(10)}

Factors == Numerators \cup {Q(-11), Q(5), Q(11)}

\* all arrays of length n over the values of S
ArraysOf(S, n) == [1..n -> S]

Scalars(S) == {PyFloat(x) : x \in S} \cup {Scal(x) : x \in S}

\* ---- ensure_devidable(numerator, denominator, max_scaling_factor) ----
DoEnsureDevidable(numerator, denominator, max_scaling_factor) ==
    \E r \in {ensure_devidable(numerator, denominator, max_scaling_factor)} :
        /\ op' = "ensure_devidable"
        /\ args' = [numerator |-> numerator, denominator |-> denominator,
                    max_scaling_factor |-> max_scaling_factor]
        /\ outcome' = IF r.raised = "" THEN "returned" ELSE r.raised
        /\ returned' = [ndarray |-> r.ndarray, py |-> r.py, data |-> r.data]
        /\ errmsg' = NoMsg
        /\ invoked' = <<>>
        /\ UNCHANGED pool

EnsureDevidable ==
    /\ Idle
    /\ \E max_scaling_factor \in MaxFactors :
          \/ \E numerator \in Scalars(Numerators), denominator \in Scalars(Denominators) :
                DoEnsureDevidable(numerator, denominator, max_scaling_factor)
          \/ \E n \in 1..MaxLen :
                \E numerator \in ArraysOf(Numerators, n) :
                   \E denominator \in {Arr(d) : d \in ArraysOf(Denominators, n)}
                                      \cup Scalars(Denominators) :
                      DoEnsureDevidable(Arr(numerator), denominator, max_scaling_factor)
          \/ \E n \in 1..MaxLen :
                \E numerator \in Scalars(Numerators),
                   denominator \in ArraysOf(Denominators, n) :
                   DoEnsureDevidable(numerator, Arr(denominator), max_scaling_factor)

\* ---- get_adjusted_scaling_factor(factor, max_scaling_factor) ----
GetAdjustedScalingFactor ==
    /\ Idle
    /\ \E factor \in Factors, max_scaling_factor \in MaxFactors :
          Call("get_adjusted_scaling_factor",
               [factor |-> factor, max_scaling_factor |-> max_scaling_factor],
               Ret(get_adjusted_scaling_factor(factor, max_scaling_factor)), <<>>)

\* ---- the scaling factor of the scaling-based correctors ----
ScalingFactor ==
    /\ Idle
    /\ \E numerator \in Numerators, denominator \in Denominators,
          max_scaling_factor \in MaxFactors :
          Call("scaling_factor",
               [numerator |-> numerator, denominator |-> denominator,
                max_scaling_factor |-> max_scaling_factor],
               Ret(scaling_factor(numerator, denominator, max_scaling_factor)), <<>>)

\* ---- get_cdf(x, xbins): samples below, inside, on the edges of and
\* above the bins, or NaN; two or three increasing edges ----
GetCdf ==
    /\ Idle
    /\ \E n \in 1..MaxLen, xbins \in {<<Zero, Q(1)>>, <<Zero, Q(1), Q(2)>>, <<Q(-1), <<1, 2>>, Q(2)>>} :
          \E x \in ArraysOf({NaN, Q(-1), Zero, Q(1), Q(2), Q(3)}, n) :
             Call("get_cdf", [x |-> x, xbins |-> xbins], Ret(get_cdf(x, xbins)), <<>>)

NextUtils == EnsureDevidable \/ GetAdjustedScalingFactor \/ ScalingFactor \/ GetCdf

SpecUtils == Init /\ [][NextUtils]_vars

-----------------------------------------------------------------------------
(* Direct calls of the correctors of cmethods/scaling.py                    *)

Kinds == ADDITIVE \cup MULTIPLICATIVE \cup {"/"}

ArraysUpTo(S) == UNION {ArraysOf(S, n) : n \in 1..MaxLen}

ScalingKwargs == {NoKw, [max_scaling_factor |-> Q(2)], [max_scaling_factor |-> <<1, 2>>]}

\* the samples of the series handed to the correctors
ObsValues == {NaN, Zero, Q(2)}

SimhValues == {NaN, Q(-1), Q(1)}

SimpValues == {NaN, Q(1), Q(3)}

ScalingCall(name, obs, simh, simp, kind, kwargs, r) ==
    Call(name, [obs |-> obs, simh |-> simh, simp |-> simp, kind |-> kind,
                kwargs |-> kwargs], r, <<>>)

LinearScaling ==
    /\ Idle
    /\ \E obs \in ArraysUpTo(ObsValues), simh \in ArraysUpTo(SimhValues),
          simp \in ArraysUpTo(SimpValues), kind \in Kinds, kwargs \in ScalingKwargs :
          ScalingCall("linear_scaling", obs, simh, simp, kind, kwargs,
                      linear_scaling(obs, simh, simp, kind, kwargs))

VarianceScaling ==
    /\ Idle
    /\ \E obs \in ArraysUpTo(ObsValues), simh \in ArraysUpTo(SimhValues),
          simp \in ArraysUpTo(SimpValues), kind \in Kinds, kwargs \in ScalingKwargs :
          ScalingCall("variance_scaling", obs, simh, simp, kind, kwargs,
                      variance_scaling(obs, simh, simp, kind, kwargs))

DeltaMethod ==
    /\ Idle
    /\ \E obs \in ArraysUpTo(ObsValues), simh \in ArraysUpTo(SimhValues),
          simp \in ArraysUpTo(SimpValues), kind \in Kinds, kwargs \in ScalingKwargs :
          ScalingCall("delta_method", obs, simh, simp, kind, kwargs,
                      delta_method(obs, simh, simp, kind, kwargs))

NextScaling == LinearScaling \/ VarianceScaling \/ DeltaMethod

SpecScaling == Init /\ [][NextScaling]_vars

-----------------------------------------------------------------------------
(* Direct calls of the correctors of cmethods/distribution.py               *)

\* The data of the control period: MaxLen samples that are all c (c one of
\* -2, 0, 2), all NaN, the ramp 0, 1, 2, .. or the ramp with its first
\* sample missing.
Constant(c) == Array([i \in 1..MaxLen |-> c])

Ramp == Array([i \in 1..MaxLen |-> Q(i - 1)])

ControlData ==
    {Constant(Q(-2)), Constant(Zero), Constant(Q(2)), Constant(NaN), Ramp,
     Array([i \in 1..MaxLen |-> IF i = 1 THEN NaN ELSE Q(i - 1)])}

ScenarioData == ArraysUpTo({Q(-1), Q(3)})

DistKinds == {"+", "*", "/"}

\* n_quantiles of a direct call: an int (positive, 0 or negative) or a value
\* of another type
DistNQuantiles == NQuantiles \cup {IntNQ(0), IntNQ(-1)}

DistCall(name, obs, simh, simp, n_quantiles, kind, r) ==
    Call(name, [obs |-> obs, simh |-> simh, simp |-> simp,
                n_quantiles |-> n_quantiles, kind |-> kind], r, <<>>)

\* the largest n_quantiles of the calls with probes inside the range of the
\* control period
MaxBins == 4

\* a control period with its samples at the two ends of [0, MaxBins]
Spread == <<Zero, Q(MaxBins)>>

\* one sample of the scenario period inside [0, MaxBins], at every half
Probes == {<<(<<k, 2>>)>> : k \in {1, 3, 5, 7}} \cup {<<Q(k)>> : k \in 0..MaxBins}

\* the calls of quantile_mapping and of quantile_delta_mapping:
\* [obs, simh, simp, n_quantiles, kind]
QuantileMappingCalls ==
    (ControlData \X ControlData \X ScenarioData \X DistNQuantiles \X DistKinds)
    \cup
    ({Spread} \X {Spread, Ramp} \X Probes \X {IntNQ(n) : n \in 1..MaxBins} \X {"+", "*"})

QuantileMapping ==
    /\ Idle
    /\ \E c \in QuantileMappingCalls :
          DistCall("quantile_mapping", c[1], c[2], c[3], c[4], c[5],
                   quantile_mapping(c[1], c[2], c[3], c[4], c[5], NoKw))

\* obs, simh and simp are DataArrays over time: simh starts in month 1,
\* simp in month 1 or 2 or lies in one month (months: the calendar month of
\* each time index); the function reads the months of simp only.
DetrendedQuantileMapping ==
    /\ Idle
    /\ \E obs \in ControlData, simh \in ControlData, simp \in ScenarioData,
          n_quantiles \in DistNQuantiles, kind \in DistKinds, p \in Patterns :
          Call("detrended_quantile_mapping",
               [obs |-> obs, simh |-> simh, simp |-> simp,
                n_quantiles |-> n_quantiles, kind |-> kind,
                simh_months |-> KeysOf(1, Len(simh)),
                simp_months |-> KeysOf(p, Len(simp))],
               detrended_quantile_mapping(
                   obs, simh, [vals |-> simp, keys |-> KeysOf(p, Len(simp))],
                   TRUE, n_quantiles, kind, NoKw),
               <<>>)

QuantileDeltaMapping ==
    /\ Idle
    /\ \E c \in QuantileMappingCalls :
          DistCall("quantile_delta_mapping", c[1], c[2], c[3], c[4], c[5],
                   quantile_delta_mapping(c[1], c[2], c[3], c[4], c[5], NoKw))

NextDist == QuantileMapping \/ DetrendedQuantileMapping \/ QuantileDeltaMapping

SpecDist == Init /\ [][NextDist]_vars

-----------------------------------------------------------------------------
(* The correctors on the data of the tests: a model run simh that is obs    *)
(* less a bias b, and a scenario run simp that is simh plus a change c.     *)

\* the length of the longest series of these calls
ScenarioLen == 3

\* a number of quantiles well above the number of samples
FineNQ == 20

\* the observations: 0, 1, .., n - 1, or two samples further apart
BiasObs == {Array([i \in 1..n |-> Q(i - 1)]) : n \in 2..ScenarioLen} \cup {<<Zero, Q(3)>>}

\* [obs, simh, simp] with simh = obs - b and simp = obs - b + c
BiasData ==
    {[obs |-> obs, simh |-> AddTo(obs, Q(0 - b)), simp |-> AddTo(obs, Q(c - b))] :
         obs \in BiasObs, b \in {-2, -1, 1, 2}, c \in {-2, -1, 0, 1, 2}}

\* the additive call of a corrector, n_quantiles given to the
\* distribution-based ones only
BiasKwargs(method) ==
    IF method \in SCALING_METHODS THEN {[kind |-> "+"]}
    ELSE {[kind |-> "+", n_quantiles |-> IntNQ(n)] : n \in (1..MaxBins) \cup {FineNQ}}

Corrector ==
    /\ Idle
    /\ \E method \in METHODS_FUNC, d \in BiasData :
          \E kwargs \in BiasKwargs(method) :
             Call(method, [obs |-> d.obs, simh |-> d.simh, simp |-> d.simp,
                           kwargs |-> kwargs],
                  CallFunc(method, d.obs, d.simh, d.simp, kwargs), <<>>)

NextBias == Corrector

SpecBias == Init /\ [][NextBias]_vars

-----------------------------------------------------------------------------
(* The claims                                                               *)

\* the kinds a method supports
Supported(method, kind) ==
    IF method = "variance_scaling" THEN kind \in ADDITIVE
    ELSE kind \in ADDITIVE \cup MULTIPLICATIVE

\* a call of adjust with well-typed data, no group and no input_core_dims,
\* for an implemented method, a kind it supports and, for the
\* distribution-based methods, an int n_quantiles
PlainAdjust ==
    /\ op = "adjust"
    /\ args.xr = AllXr
    /\ args.method \in METHODS_FUNC
    /\ "group" \notin DOMAIN args.kwargs
    /\ "input_core_dims" \notin DOMAIN args.kwargs
    /\ Supported(args.method, args.kwargs.kind)
    /\ args.method \in DISTRIBUTION_METHODS
          => Get(args.kwargs, "n_quantiles", Absent).type = "int"

C2_Original ==
    op = "scaling_factor" =>
        /\ RLe(RNeg(RAbs(args.max_scaling_factor)), returned)
        /\ RLe(returned, RAbs(args.max_scaling_factor))
        /\ (args.numerator = Zero /\ args.denominator = Zero) => returned = Zero
        /\ (args.numerator # Zero /\ args.denominator = Zero)
              => returned = RMul(Q(RSgn(args.numerator)), args.max_scaling_factor)

\* C2 (amended): the scaling factor lies in [-|max|, |max|], is 0 for 0/0,
\* and for x/0 with x # 0 it is x * max_scaling_factor clamped to that
\* range: sign(x) * max_scaling_factor when |x| >= 1, x * max_scaling_factor
\* when |x| < 1.
C2_ScalingFactor ==
    op = "scaling_factor" =>
        /\ RLe(RNeg(RAbs(args.max_scaling_factor)), returned)
        /\ RLe(returned, RAbs(args.max_scaling_factor))
        /\ (args.numerator = Zero /\ args.denominator = Zero) => returned = Zero
        /\ (args.numerator # Zero /\ args.denominator = Zero)
              => returned = IF RLt(RAbs(args.numerator), Q(1))
                            THEN RMul(args.numerator, args.max_scaling_factor)
                            ELSE RMul(Q(RSgn(args.numerator)), args.max_scaling_factor)

C2_Witness ==
    /\ op = "scaling_factor"
    /\ args.denominator = Zero
    /\ args.numerator = <<1, 2>>
    /\ args.max_scaling_factor = Q(-10)
    /\ returned = Q(-5)

\* the entry the division helper is to produce for n / d
SafeQuotient(n, d, max_scaling_factor) ==
    IF d # Zero THEN RDiv(n, d)
    ELSE IF n # Zero THEN RMul(n, max_scaling_factor)
    ELSE Zero

\* C3: ensure_devidable never raises and returns, for scalar and for array
\* operands, in each entry numerator/denominator where the denominator is
\* not 0, numerator * max_scaling_factor where only the denominator is 0,
\* and 0 where both are 0.
C3_NeverRaises ==
    op = "ensure_devidable" =>
        /\ outcome = "returned"
        /\ IF returned.ndarray
           THEN \A i \in 1..Len(returned.data) :
                   returned.data[i] = SafeQuotient(At(args.numerator, i),
                                                   At(args.denominator, i),
                                                   args.max_scaling_factor)
           ELSE returned.data = SafeQuotient(At(args.numerator, 1),
                                             At(args.denominator, 1),
                                             args.max_scaling_factor)

\* a direct call of quantile_mapping or quantile_delta_mapping with an int
\* n_quantiles and a supported kind
MappingCall ==
    /\ op \in {"quantile_mapping", "quantile_delta_mapping"}
    /\ args.n_quantiles.type = "int"
    /\ args.kind \in ADDITIVE \cup MULTIPLICATIVE

AllNaN(a) == \A i \in 1..Len(a) : IsNaN(a[i])

\* C4: if obs and simh are both constant and equal to the same value c,
\* whatever c is, quantile_mapping and quantile_delta_mapping return simp
\* unchanged, for both kinds and every n_quantiles.
C4_ConstantControl ==
    (/\ MappingCall
     /\ args.obs = args.simh
     /\ args.obs \in {Constant(Q(-2)), Constant(Zero), Constant(Q(2))})
    => outcome = "returned" /\ returned = args.simp

\* C5: if obs is entirely NaN or simh is entirely NaN, quantile_mapping and
\* quantile_delta_mapping raise nothing and return simp unchanged.
C5_AllNaNControl ==
    (MappingCall /\ (AllNaN(args.obs) \/ AllNaN(args.simh)))
    => outcome = "returned" /\ returned = args.simp

\* C6: adjust with method "detrended_quantile_mapping" and well-typed data
\* fails with ValueError whatever kind, n_quantiles and group are, and no
\* corrector is invoked.
C6_DetrendedRejected ==
    (/\ op = "adjust"
     /\ args.method = "detrended_quantile_mapping"
     /\ args.xr = AllXr)
    => outcome = "ValueError" /\ errmsg.of = "detrended_quantile_mapping"
       /\ invoked = <<>> /\ returned = <<>>

C6_Witness ==
    /\ op = "adjust"
    /\ args.method = "detrended_quantile_mapping"
    /\ args.xr = AllXr
    /\ "group" \in DOMAIN args.kwargs
    /\ args.kwargs.kind = "/"
    /\ "n_quantiles" \notin DOMAIN args.kwargs
    /\ outcome = "ValueError"

\* a call of adjust with well-typed data, a group and one of the methods
GroupedAdjust(methods) ==
    /\ op = "adjust"
    /\ args.xr = AllXr
    /\ "group" \in DOMAIN args.kwargs
    /\ args.method \in methods

\* a call of adjust_3d with well-typed data, an int n_quantiles, a group
\* and one of the methods
GroupedAdjust3d(methods) ==
    /\ op = "adjust_3d"
    /\ args.xr = AllXr
    /\ args.n_quantiles.type = "int"
    /\ args.group # NoneGroup
    /\ args.method \in methods

\* C7 (as stated): adjust and adjust_3d, given a group together with
\* quantile_mapping or quantile_delta_mapping, fail with ValueError and
\* invoke no corrector.
C7_Original ==
    (\/ GroupedAdjust({"quantile_mapping", "quantile_delta_mapping"})
     \/ GroupedAdjust3d({"quantile_mapping", "quantile_delta_mapping"}))
    => outcome = "ValueError" /\ invoked = <<>>

\* C7 (amended): adjust, given a group together with quantile_mapping or
\* quantile_delta_mapping, fails with ValueError and invokes no corrector;
\* adjust_3d does not reject the combination: it ignores the group, invokes
\* the corrector on the cells and ends as the same call without a group
\* does.
C7_GroupWithDistribution ==
    /\ GroupedAdjust({"quantile_mapping", "quantile_delta_mapping"})
          => outcome = "ValueError" /\ errmsg.of = "group" /\ invoked = <<>>
    /\ GroupedAdjust3d({"quantile_mapping", "quantile_delta_mapping"})
          => /\ invoked # <<>>
             /\ [outcome |-> outcome, value |-> returned, msg |-> errmsg,
                 calls |-> invoked]
                   \in CMethods_adjust_3d(args.method, args.obs, args.simh, args.simp,
                                          args.xr, args.n_quantiles, args.kind,
                                          NoneGroup, args.n_jobs, args.kwargs)

C7_Witness ==
    /\ GroupedAdjust3d({"quantile_mapping"})
    /\ outcome = "returned"
    /\ Len(invoked) = NLat * NLon

\* C8: for a method name that is not an implemented algorithm, adjust,
\* adjust_3d and pool_adjust fail with UnknownMethodError, whatever the other
\* parameters are (a group included), and invoke no corrector.
C8_UnknownMethod ==
    (/\ op \in {"adjust", "adjust_3d", "pool_adjust"}
     /\ args.method \notin METHODS
     /\ op # "pool_adjust" => args.xr = AllXr
     /\ op # "adjust" => args.n_quantiles.type = "int")
    => outcome = "UnknownMethodError" /\ invoked = <<>> /\ returned = <<>>

\* C9: linear_scaling and delta_method fail with NotImplementedError for
\* every kind outside {"+", "add", "*", "mult"}, variance_scaling for every
\* kind outside {"+", "add"}; nothing is returned and the message names the
\* kind and the valid alternatives.
C9_UnsupportedKindScaling ==
    /\ (op \in {"linear_scaling", "delta_method"}
        /\ args.kind \notin ADDITIVE \cup MULTIPLICATIVE)
          => /\ outcome = "NotImplementedError" /\ returned = <<>>
             /\ errmsg = [of |-> op, kind |-> args.kind, use |-> {"+", "*"}]
    /\ (op = "variance_scaling" /\ args.kind \notin ADDITIVE)
          => /\ outcome = "NotImplementedError" /\ returned = <<>>
             /\ errmsg = [of |-> op, kind |-> args.kind, use |-> {"+"}]

C9_Witness ==
    /\ op = "variance_scaling"
    /\ args.kind = "mult"
    /\ outcome = "NotImplementedError"
    /\ errmsg.kind = "mult"

\* C10: quantile_mapping, detrended_quantile_mapping and
\* quantile_delta_mapping fail with NotImplementedError whenever the kind
\* is not supported, for all data (constant or all-NaN control data
\* included), and return nothing.
C10_UnsupportedKindDistribution ==
    (/\ op \in {"quantile_mapping", "detrended_quantile_mapping",
                "quantile_delta_mapping"}
     /\ args.n_quantiles.type = "int"
     /\ args.kind \notin ADDITIVE \cup MULTIPLICATIVE)
    => outcome = "NotImplementedError" /\ returned = <<>>

\* C11: quantile_mapping, detrended_quantile_mapping and
\* quantile_delta_mapping reject every n_quantiles that is not a positive
\* integer (a value of another type, 0, a negative integer) with an error
\* about the argument n_quantiles, whatever the data are.
C11_NQuantilesRejected ==
    (/\ op \in {"quantile_mapping", "detrended_quantile_mapping",
                "quantile_delta_mapping"}
     /\ args.kind \in ADDITIVE \cup MULTIPLICATIVE
     /\ (args.n_quantiles.type # "int" \/ args.n_quantiles.val <= 0))
    => /\ outcome \in {"TypeError", "ValueError"}
       /\ errmsg.of = "n_quantiles"
       /\ returned = <<>>

RECURSIVE SimpSamples(_)
SimpSamples(calls) ==
    IF calls = <<>> THEN 0 ELSE Len(Head(calls).simp) + SimpSamples(Tail(calls))

\* a grouped correction: adjust with the group "time.month", or adjust_3d
\* with a group, for a scaling-based method and a kind it supports, on
\* well-typed data
GroupedCorrection ==
    /\ op \in {"adjust", "adjust_3d"}
    /\ args.xr = AllXr
    /\ args.method \in SCALING_METHODS
    /\ IF op = "adjust"
       THEN /\ Get(args.kwargs, "group", NoneGroup) = StrGroup
            /\ Supported(args.method, args.kwargs.kind)
       ELSE /\ args.group = StrGroup
            /\ args.n_quantiles.type = "int"
            /\ Supported(args.method, args.kind)

\* C13: for obs, simh and simp of any lengths and group keys, a grouped
\* correction returns one value for each time index of simp, and every
\* sample of simp went through the corrector in exactly one group.
C13_GroupedScatter ==
    GroupedCorrection =>
        /\ outcome = "returned"
        /\ IF op = "adjust"
           THEN /\ DOMAIN returned = 1..Len(args.simp.vals)
                /\ SimpSamples(invoked) = Len(args.simp.vals)
           ELSE /\ \A lat \in 1..NLat : \A lon \in 1..NLon :
                      Len(returned[lat][lon]) = Len(args.simp.keys)
                /\ SimpSamples(invoked) = NLat * NLon * Len(args.simp.keys)

\* the positions, in the order of completion, of the rows that raised
FailedRows == {k \in 1..Len(pool.done) : Raised(pool.done[k].result)}

MeanOver(a) ==
    LET v == SelectSeq(a, LAMBDA x : x # NaN) IN RDiv(SumSeq(v), Q(Len(v)))

\* the clamped scaling factor n / d: the safe quotient, moved into
\* [-|max_scaling_factor|, |max_scaling_factor|]
Clamp(n, d, max_scaling_factor) ==
    LET q == SafeQuotient(n, d, max_scaling_factor)
        m == RAbs(max_scaling_factor)
    IN  IF RGt(q, m) THEN m ELSE IF RLt(q, RNeg(m)) THEN RNeg(m) ELSE q

\* a series with a sample that is not NaN
Sampled(a) == \E i \in 1..Len(a) : a[i] # NaN

\* max_scaling_factor of the caller, 10 when the caller gives none
CallerMax == Get(args.kwargs, "max_scaling_factor", Q(10))

\* C15: linear_scaling returns a series of simp's length with
\* simp[i] + (mean(obs) - mean(simh)) for the additive kinds and
\* simp[i] * clamp(mean(obs) / mean(simh)) for the multiplicative kinds,
\* the means taken over the samples that are not NaN.
C15_LinearScaling ==
    (/\ op = "linear_scaling"
     /\ args.kind \in ADDITIVE \cup MULTIPLICATIVE
     /\ Sampled(args.obs) /\ Sampled(args.simh))
    => /\ outcome = "returned"
       /\ Len(returned) = Len(args.simp)
       /\ \A i \in 1..Len(args.simp) :
             returned[i] =
                 IF args.kind \in ADDITIVE
                 THEN RAdd(args.simp[i], RSub(MeanOver(args.obs), MeanOver(args.simh)))
                 ELSE RMul(args.simp[i],
                           Clamp(MeanOver(args.obs), MeanOver(args.simh), CallerMax))

C15_Witness ==
    /\ op = "linear_scaling"
    /\ args.kind = "*"
    /\ args.obs = <<NaN, Q(2)>>
    /\ args.simh = <<Q(-1), Q(1)>>
    /\ args.simp = <<Q(1), Q(3)>>
    /\ args.kwargs = NoKw
    /\ returned = <<Q(10), Q(30)>>

\* the series of the scenario period with the same mean as simp
SameMean(simp) == {other \in ArraysUpTo(SimpValues) : MeanOver(other) = MeanOver(simp)}

\* C16: delta_method returns a series built from obs, with
\* obs[i] + (mean(simp) - mean(simh)) for the additive kinds and
\* obs[i] * clamp(mean(simp) / mean(simh)) for the multiplicative kinds;
\* every simp with the same mean gives the same result.
C16_DeltaMethod ==
    (/\ op = "delta_method"
     /\ args.kind \in ADDITIVE \cup MULTIPLICATIVE
     /\ Sampled(args.simp) /\ Sampled(args.simh))
    => /\ outcome = "returned"
       /\ Len(returned) = Len(args.obs)
       /\ \A i \in 1..Len(args.obs) :
             returned[i] =
                 IF args.kind \in ADDITIVE
                 THEN RAdd(args.obs[i], RSub(MeanOver(args.simp), MeanOver(args.simh)))
                 ELSE RMul(args.obs[i],
                           Clamp(MeanOver(args.simp), MeanOver(args.simh), CallerMax))
       /\ \A other \in SameMean(args.simp) :
             delta_method(args.obs, args.simh, other, args.kind, args.kwargs).value
                 = returned

C16_Witness ==
    /\ op = "delta_method"
    /\ args.kind = "+"
    /\ args.obs = <<Zero, Q(2)>>
    /\ args.simh = <<Q(1)>>
    /\ args.simp = <<Q(1), Q(3)>>
    /\ <<Q(3), Q(1)>> \in SameMean(args.simp) /\ <<Q(1)>> \notin SameMean(args.simp)
    /\ returned = <<Q(1), Q(3)>>

\* additive linear scaling of x, as the claims write it
LS(x) == AddTo(x, RSub(MeanOver(args.obs), MeanOver(args.simh)))

\* a series less its mean
Centered(a) == AddTo(a, RNeg(MeanOver(a)))

\* the square of the standard deviation of a series without NaN
SquaredStd(a) ==
    RDiv(SumSeq([i \in 1..Len(a) |-> RMul(Centered(a)[i], Centered(a)[i])]), Q(Len(a)))

\* the square of clamp(std(obs) / std(centered LS_simh))
SquaredFactor ==
    Clamp(SquaredStd(args.obs), SquaredStd(Centered(LS(args.simh))),
          RMul(CallerMax, CallerMax))

\* the mean of the elements a + b * sqrt(f) of a returned series, NaN
\* elements left out, equals m
MeanIs(series, m) ==
    LET v == SelectSeq(series, LAMBDA x : x # NaN)
    IN  /\ RDiv(SumSeq([i \in 1..Len(v) |-> IF Len(v[i]) = 3 THEN v[i][1] ELSE v[i]]),
                Q(Len(v))) = m
        /\ SumSeq([i \in 1..Len(v) |-> IF Len(v[i]) = 3 THEN v[i][2] ELSE Zero]) = Zero

\* the call the claim on variance_scaling is about: additive, obs and simh
\* without NaN, simp with a sample
VarianceScaled ==
    /\ op = "variance_scaling"
    /\ args.kind \in ADDITIVE
    /\ ~HasNaN(args.obs) /\ ~HasNaN(args.simh) /\ Sampled(args.simp)

\* the result is LS_simp's mean plus the deviations of LS_simp from its
\* mean times clamp(std(obs) / std(centered LS_simh)), and its mean is
\* mean(simp) + mean(obs) - mean(simh)
VarianceScalingFormula ==
    /\ outcome = "returned"
    /\ Len(returned) = Len(args.simp)
    /\ \A i \in 1..Len(args.simp) :
          returned[i] = Surd(MeanOver(LS(args.simp)), Centered(LS(args.simp))[i],
                             SquaredFactor)
    /\ MeanIs(returned, RAdd(MeanOver(args.simp),
                             RSub(MeanOver(args.obs), MeanOver(args.simh))))

BinWidth ==
    RDiv(RSub(py_max(np_nanmax(args.obs), np_nanmax(args.simh)),
              py_min(np_nanmin(args.obs), np_nanmin(args.simh))),
         Q(args.n_quantiles.val))

\* a sample inside the range of the control period
InControlRange(x) ==
    /\ RLe(py_min(np_nanmin(args.obs), np_nanmin(args.simh)), x)
    /\ RLe(x, py_max(np_nanmax(args.obs), np_nanmax(args.simh)))

\* C18: for a positive n_quantiles and obs = simh that is not constant,
\* additive quantile_mapping returns, for every value of simp inside the
\* range of the control period, a value that differs from it by at most one
\* bin width.
C18_IdentityUpToBin ==
    (/\ op = "quantile_mapping"
     /\ args.kind \in ADDITIVE
     /\ args.n_quantiles.type = "int" /\ args.n_quantiles.val > 0
     /\ args.obs = args.simh
     /\ ~HasNaN(args.obs)
     /\ np_nanmax(args.obs) # np_nanmin(args.obs))
    => /\ outcome = "returned"
       /\ Len(returned) = Len(args.simp)
       /\ \A i \in 1..Len(args.simp) :
             InControlRange(args.simp[i])
                 => RLe(RAbs(RSub(returned[i], args.simp[i])), BinWidth)

\* the sum of the squares of the differences of two series
SquaredError(a, b) ==
    SumSeq([i \in 1..Len(a) |-> RMul(RSub(a[i], b[i]), RSub(a[i], b[i]))])

\* the true target of the scenario: obs plus the change from simh to simp
Obsp == AddTo(args.obs, RSub(args.simp[1], args.simh[1]))

\* the mean squared error, hence its root, of the returned series against
\* obsp is smaller than the one of simp
BiasReduced ==
    /\ outcome = "returned"
    /\ Len(returned) = Len(args.obs)
    /\ RLt(SquaredError(returned, Obsp), SquaredError(args.simp, Obsp))

CdfShape ==
    /\ outcome = "returned"
    /\ Len(returned) = Len(args.xbins)
    /\ returned[1] = Zero
    /\ \A i \in 1..(Len(returned) - 1) : RLe(returned[i], returned[i + 1])

\* C20 (as stated): get_cdf returns len(xbins) elements, the first one 0,
\* none smaller than the one before, the last one the number of samples
\* in [xbins[0], xbins[-1]): a sample equal to the last edge is not counted.
C20_Original ==
    op = "get_cdf" =>
        /\ CdfShape
        /\ returned[Len(returned)] =
               Q(Cardinality({k \in 1..Len(args.x) :
                     /\ RLe(args.xbins[1], args.x[k])
                     /\ RLt(args.x[k], args.xbins[Len(args.xbins)])}))

\* C20 (amended): the same, the last element being the number of samples
\* in the closed interval [xbins[0], xbins[-1]]: a sample equal to the
\* last edge is counted, NaN samples are not.
C20_Cdf ==
    op = "get_cdf" =>
        /\ CdfShape
        /\ returned[Len(returned)] =
               Q(Cardinality({k \in 1..Len(args.x) :
                     /\ args.x[k] # NaN
                     /\ RLe(args.xbins[1], args.x[k])
                     /\ RLe(args.x[k], args.xbins[Len(args.xbins)])}))

C20_Witness ==
    /\ op = "get_cdf"
    /\ args.x = <<Q(2), NaN>>
    /\ args.xbins = <<Zero, Q(1), Q(2)>>
    /\ returned = <<Zero, Zero, Q(1)>>

\* a call of a distribution-based corrector with a positive int n_quantiles
\* on control data whose range is not degenerate
ValidDistCall ==
    /\ args.n_quantiles.type = "int" /\ args.n_quantiles.val > 0
    /\ Sampled(args.obs) /\ Sampled(args.simh)
    /\ py_max(np_nanmax(args.obs), np_nanmax(args.simh))
          # py_min(np_nanmin(args.obs), np_nanmin(args.simh))

\* the shared bin edges: n_quantiles equal steps from the smallest to the
\* largest value of obs and simh
SharedEdges ==
    [k \in 1..(args.n_quantiles.val + 1) |->
        RAdd(py_min(np_nanmin(args.obs), np_nanmin(args.simh)),
             RMul(Q(k - 1), BinWidth))]

\* the CDF of a series over the shared edges: at edge k the number of
\* samples from the first edge up to edge k (the last edge included)
CdfOver(x) ==
    [k \in 1..Len(SharedEdges) |->
        Q(Cardinality({j \in 1..Len(x) :
            /\ x[j] # NaN
            /\ RLe(SharedEdges[1], x[j])
            /\ IF k = Len(SharedEdges) THEN RLe(x[j], SharedEdges[k])
               ELSE RLt(x[j], SharedEdges[k])}))]

\* the value of cdf(simp) interpolated at simp(i)
Eps(i) ==
    interp1(args.simp[i], SharedEdges, CdfOver(args.simp),
            Zero, CdfOver(args.simp)[Len(SharedEdges)])

\* invert(cdf, e): e looked up along cdf and read off the edges
Invert(cdf, e) == interp1(e, cdf, SharedEdges, SharedEdges[1], SharedEdges[Len(SharedEdges)])

\* C21: additive quantile_delta_mapping returns, for each i,
\* invert(cdf(obs), eps(i)) + (simp(i) - invert(cdf(simh), eps(i))), eps(i)
\* being cdf(simp) interpolated at simp(i) and the three CDFs being built
\* over the same bin edges.
C21_DeltaDecomposition ==
    (/\ op = "quantile_delta_mapping"
     /\ args.kind \in ADDITIVE
     /\ ValidDistCall)
    => /\ outcome = "returned"
       /\ Len(returned) = Len(args.simp)
       /\ \A i \in 1..Len(args.simp) :
             returned[i] = RAdd(Invert(CdfOver(args.obs), Eps(i)),
                                RSub(args.simp[i], Invert(CdfOver(args.simh), Eps(i))))

C21_Witness ==
    /\ op = "quantile_delta_mapping"
    /\ args.kind = "+"
    /\ args.n_quantiles = IntNQ(2)
    /\ args.obs = Constant(Q(2))
    /\ args.simh = Ramp
    /\ outcome = "returned"
    /\ returned # args.simp


\* simp(i) rescaled by the ratio of the mean of simh to the mean of simp
RescaledProxy(i) ==
    RDiv(RMul(args.simp[i], MeanOver(args.simh)), MeanOver(args.simp))

\* the quantile mass of x: cdf(simh) interpolated at x, 0 below the first
\* edge
MassAt(x) ==
    interp1(x, SharedEdges, CdfOver(args.simh),
            Zero, CdfOver(args.simh)[Len(SharedEdges)])

\* C22: multiplicative quantile_mapping reads the quantile mass of simp(i)
\* off cdf(simh) at simp(i) * mean(simh) / mean(simp), not at simp(i), and
\* inverts it through cdf(obs).
C22_RescaledProxy ==
    (/\ op = "quantile_mapping"
     /\ args.kind \in MULTIPLICATIVE
     /\ ValidDistCall
     /\ Sampled(args.simp)
     /\ MeanOver(args.simp) # Zero)
    => /\ outcome = "returned"
       /\ Len(returned) = Len(args.simp)
       /\ \A i \in 1..Len(args.simp) :
             returned[i] = Invert(CdfOver(args.obs), MassAt(RescaledProxy(i)))


\* the bin edges of the multiplicative kinds: n_quantiles equal steps from 0
\* to the largest value of obs and simh
RatioEdges ==
    [k \in 1..(args.n_quantiles.val + 1) |->
        RMul(Q(k - 1), RDiv(py_max(np_nanmax(args.obs), np_nanmax(args.simh)),
                            Q(args.n_quantiles.val)))]

\* the CDF of a series over RatioEdges
RatioCdf(x) ==
    [k \in 1..Len(RatioEdges) |->
        Q(Cardinality({j \in 1..Len(x) :
            /\ x[j] # NaN
            /\ RLe(RatioEdges[1], x[j])
            /\ IF k = Len(RatioEdges) THEN RLe(x[j], RatioEdges[k])
               ELSE RLt(x[j], RatioEdges[k])}))]

\* invert(cdf, eps(i)) over RatioEdges, eps(i) being cdf(simp) at simp(i)
RatioInvert(cdf, i) ==
    interp1(interp1(args.simp[i], RatioEdges, RatioCdf(args.simp),
                    Zero, RatioCdf(args.simp)[Len(RatioEdges)]),
            cdf, RatioEdges, RatioEdges[1], RatioEdges[Len(RatioEdges)])

\* Delta(i) under the clamp rule with max_scaling_factor 10
GuardedDelta(i) ==
    LET n == args.simp[i]
        d == RatioInvert(RatioCdf(args.simh), i)
    IN  IF d = Zero
        THEN IF n = Zero THEN Zero ELSE RMul(Q(RSgn(n)), Q(10))
        ELSE IF RGt(RDiv(n, d), Q(10)) THEN Q(10)
        ELSE IF RLt(RDiv(n, d), Q(-10)) THEN Q(-10)
        ELSE RDiv(n, d)

\* C23: multiplicative quantile_delta_mapping multiplies invert(cdf(obs),
\* eps(i)) by a ratio Delta(i) = simp(i) / invert(cdf(simh), eps(i)) that is
\* kept in [-10, 10] when the caller gives no max_scaling_factor, is 0 for
\* 0/0 and sign(simp(i)) * 10 where only the denominator is 0.
C23_GuardedDelta ==
    (/\ op = "quantile_delta_mapping"
     /\ args.kind \in MULTIPLICATIVE
     /\ args.n_quantiles.type = "int" /\ args.n_quantiles.val > 0
     /\ Sampled(args.obs) /\ Sampled(args.simh)
     /\ RGt(py_max(np_nanmax(args.obs), np_nanmax(args.simh)), Zero))
    => /\ outcome = "returned"
       /\ Len(returned) = Len(args.simp)
       /\ \A i \in 1..Len(args.simp) :
             returned[i] = RMul(RatioInvert(RatioCdf(args.obs), i), GuardedDelta(i))


\* a grouping that puts every time index of the series into one group
OneGroup(keys) == \A i \in 1..Len(keys) : keys[i] = keys[1]

\* the call of the state made again without its group
Ungrouped ==
    IF op = "adjust"
    THEN adjust(args.method, args.obs, args.simh, args.simp, args.xr,
                Without(args.kwargs, {"group"}))
    ELSE CMethods_lat_loop(args.method, args.obs, args.simh, args.simp, NoneGroup,
                           args.kind, args.n_quantiles, args.kwargs, 1, <<>>, <<>>)

\* C24: a grouped correction whose key puts all time indices of obs, simh
\* and simp into one group ends as the same call without a group does and
\* returns the same values in the same order, for every scaling-based
\* method and kind.
C24_OneGroupIsUngrouped ==
    (/\ GroupedCorrection
     /\ op = "adjust_3d" => args.n_jobs = 1
     /\ OneGroup(args.obs.keys) /\ OneGroup(args.simh.keys) /\ OneGroup(args.simp.keys))
    => /\ outcome = Ungrouped.outcome
       /\ returned = Ungrouped.value


\* the series corrected by the call: the one of adjust, the cells of
\* adjust_3d
Cells == IF op = "adjust" THEN {<<1, 1>>} ELSE (1..NLat) \X (1..NLon)

\* the samples of the series of ds at the cell c that carry the group key k
Keyed(ds, c, k) ==
    Take(IF op = "adjust" THEN ds.vals ELSE ds.cells[c[1]][c[2]],
         IndicesOf(ds.keys, k, 1))

\* C25: a grouped correction invokes the corrector exactly once for each
\* group key present in simp, with the samples of obs, simh and simp that
\* carry that key, also when the series hold different sets of keys or
\* start at different keys.
C25_OncePerKey ==
    GroupedCorrection =>
        /\ Len(invoked) = Cardinality(Cells) * Cardinality(GroupKeys(args.simp.keys))
        /\ \A c \in Cells : \A k \in GroupKeys(args.simp.keys) :
              Cardinality({j \in 1..Len(invoked) :
                  /\ invoked[j].obs = Keyed(args.obs, c, k)
                  /\ invoked[j].simh = Keyed(args.simh, c, k)
                  /\ invoked[j].simp = Keyed(args.simp, c, k)}) = 1


\* the samples of the month m of a series with the given months
OfMonth(series, months, m) == Take(series, IndicesOf(months, m, 1))

\* the mean of the samples of simh whose own month is m
SimhMean(m) == MeanOver(OfMonth(args.simh, args.simh_months, m))

\* the mean of the samples of simp of the month m
SimpMean(m) == MeanOver(OfMonth(args.simp, args.simp_months, m))

\* the value of time index i under detrending with the means of its month:
\* the sample is shifted (scaled) to the mean of simh, its quantile mass is
\* inverted through cdf(obs) and the shift (scaling) is undone
Detrended(i) ==
    LET m == args.simp_months[i]
    IN  IF args.kind \in ADDITIVE
        THEN RAdd(Invert(CdfOver(args.obs),
                         MassAt(RAdd(args.simp[i], RSub(SimhMean(m), SimpMean(m))))),
                  RSub(SimpMean(m), SimhMean(m)))
        ELSE RMul(Invert(CdfOver(args.obs),
                         MassAt(RMul(args.simp[i], RDiv(SimhMean(m), SimpMean(m))))),
                  RDiv(SimpMean(m), SimhMean(m)))

\* C26: detrended_quantile_mapping shifts (additive) or scales
\* (multiplicative) the samples of simp of every month m by the mean of the
\* samples of simh whose own month is m, for any length and starting month
\* of simp, and undoes the same shift or scaling after the inversion.
C26_MonthlyMeans ==
    (/\ op = "detrended_quantile_mapping"
     /\ args.kind \in ADDITIVE \cup MULTIPLICATIVE
     /\ ValidDistCall
     /\ \A i \in 1..Len(args.simp) :
           /\ Sampled(OfMonth(args.simh, args.simh_months, args.simp_months[i]))
           /\ args.kind \in MULTIPLICATIVE
                  => /\ SimhMean(args.simp_months[i]) # Zero
                     /\ SimpMean(args.simp_months[i]) # Zero)
    => /\ outcome = "returned"
       /\ Len(returned) = Len(args.simp)
       /\ \A i \in 1..Len(args.simp) : returned[i] = Detrended(i)


CellOf(ds, lat, lon) == [vals |-> ds.cells[lat][lon], keys |-> ds.keys]

\* the 1-dimensional corrector on the series of the cell (lat, lon)
CellCorrected(lat, lon) ==
    CMethods_func(args.method, CellOf(args.obs, lat, lon), CellOf(args.simh, lat, lon),
                  CellOf(args.simp, lat, lon), args.group, args.kind,
                  args.n_quantiles, args.kwargs)

\* C28: when adjust_3d returns, whatever the order in which the workers
\* finished, every cell (lat, lon) of the result holds the output of the
\* 1-dimensional corrector for the obs, simh and simp series of that cell,
\* and the corrector ran once on the series of each cell (once per group
\* with a group).
C28_CellsIndependent ==
    (op = "adjust_3d" /\ outcome = "returned")
    => /\ Len(returned) = NLat
       /\ \A lat \in 1..NLat :
             /\ Len(returned[lat]) = NLon
             /\ \A lon \in 1..NLon :
                   /\ returned[lat][lon] = CellCorrected(lat, lon).value
                   /\ \A c \in {CellCorrected(lat, lon).calls[j] :
                                    j \in 1..Len(CellCorrected(lat, lon).calls)} :
                         Cardinality({j \in 1..Len(invoked) : invoked[j] = c}) = 1
       /\ Len(invoked) = Len(Concat(Array([k \in 1..(NLat * NLon) |->
              CellCorrected(((k - 1) \div NLon) + 1, ((k - 1) % NLon) + 1).calls])))

\* the worker of the last row finished first
C28_Witness ==
    /\ op = "adjust_3d" /\ outcome = "returned"
    /\ pool.done[1].lat = NLat
    /\ returned[1] # returned[NLat]
    /\ returned[NLat] = pool.done[1].result.value


\* a dict whose keys are not exactly obs, simh and simp
BadDict(option) == option.type = "dict" /\ option.keys # {"obs", "simh", "simp"}

\* C29: adjust rejects with ValueError, before any corrector runs, a group
\* dict or an input_core_dims dict whose keys are not exactly obs, simh and
\* simp (a key missing, no key, an unknown key) and a group that is
\* neither a string nor a dict.
C29_DictOptionsValidated ==
    (/\ op = "adjust"
     /\ args.xr = AllXr
     /\ \/ /\ "group" \in DOMAIN args.kwargs
           /\ BadDict(args.kwargs.group) \/ args.kwargs.group.type \notin {"str", "dict"}
        \/ /\ "input_core_dims" \in DOMAIN args.kwargs
           /\ BadDict(args.kwargs.input_core_dims))
    => outcome = "ValueError" /\ invoked = <<>>


====
